---- MODULE Spec2Model ----
(***************************************************************************)
(* A model of coincidence.regressions: the type dispatch of                *)
(* AdvancedDataRegressionFixture.check and the YAML representers that      *)
(* serialize values nested inside the checked value.                       *)
(*                                                                         *)
(* A Python value is a record [cls, kv, el, chars]:                        *)
(*   cls    the name of its class;                                         *)
(*   kv     its key/value pairs in insertion order (mappings), its fields  *)
(*          in declaration order (named tuples, CaptureResult);            *)
(*   el     its elements (lists, tuples, sequences) or, for a ChainMap,    *)
(*          its maps;                                                      *)
(*   chars  its characters (str, bytes, paths) or its digits (int).        *)
(* A character is a one-token string: "a", "SP" (space), "TAB", "LF",      *)
(* "CR", "FF" (form feed).                                                 *)
(***************************************************************************)
EXTENDS Naturals, Sequences, FiniteSets

\* The longest text (str, bytes, captured stream) given to check.
MaxText == 3

Chars == {"a", "SP", "TAB", "LF", "CR", "FF"}

RECURSIVE TextsOfLen(_)
TextsOfLen(n) ==
    IF n = 0 THEN {<<>>}
    ELSE {Append(t, c) : t \in TextsOfLen(n - 1), c \in Chars}

Texts == UNION {TextsOfLen(n) : n \in 0..MaxText}

----------------------------------------------------------------------------
\* Values.

Val(c, kv, el, chars) == [cls |-> c, kv |-> kv, el |-> el, chars |-> chars]

\* No value: a variable that has not been assigned yet.
Null == Val("<unset>", <<>>, <<>>, <<>>)

Int(d)   == Val("int", <<>>, <<>>, <<d>>)
Str(t)   == Val("str", <<>>, <<>>, t)
Bytes(t) == Val("bytes", <<>>, <<>>, t)
Path(t)  == Val("PurePosixPath", <<>>, <<>>, t)

Pair(k, v) == [k |-> k, v |-> v]

MapOf(c, kv) == Val(c, kv, <<>>, <<>>)
SeqOf(c, el) == Val(c, <<>>, el, <<>>)

\* collections.ChainMap(*maps): el holds the maps, each a plain dict.
ChainMapOf(maps) == Val("ChainMap", <<>>, maps, <<>>)

\* CaptureResult(out, err); cls is "CaptureResult" for the named-tuple class
\* and "CaptureResultObj" for the plain class with the two attributes only.
Capture(c, out, err) == Val(c, <<Pair("out", out), Pair("err", err)>>, <<>>, <<>>)

----------------------------------------------------------------------------
\* What isinstance answers for each class.

\* isinstance(v, (Mapping, OrderedDict, Counter, defaultdict,
\*                MappingProxyType, ChainMap))
MappingClasses ==
    {"dict", "DictSubclass", "OrderedDict", "Counter", "defaultdict",
     "mappingproxy", "ChainMap", "CustomMapping", "InlineTableDict"}

IsMappingLike(v) == v.cls \in MappingClasses

\* isinstance(v, CaptureResult)
IsCaptureResult(v) == v.cls \in {"CaptureResult", "CaptureResultObj"}

\* isinstance(v, SupportsAsDict): the runtime-checkable protocol holds of
\* every object with an _asdict attribute, so of every named tuple.
SupportsAsDict(v) == v.cls \in {"Count", "CaptureResult"}

\* isinstance(v, collections.abc.Sequence): list, tuple and their
\* subclasses, Sequence subclasses, and the registered str and bytes.
IsSequence(v) ==
    v.cls \in {"list", "tuple", "CustomSequence", "Count", "CaptureResult",
               "str", "bytes"}

IsStr(v) == v.cls = "str"

----------------------------------------------------------------------------
\* The conversions check applies.

Contains(s, x) == \E i \in 1..Len(s) : s[i] = x

KeysOf(kv) == [i \in 1..Len(kv) |-> kv[i].k]

\* d.update(dict.fromkeys(ks)): the keys not yet in d are added at the end.
RECURSIVE AddKeys(_, _, _)
AddKeys(d, ks, i) ==
    IF i > Len(ks) THEN d
    ELSE AddKeys(IF Contains(d, ks[i]) THEN d ELSE Append(d, ks[i]), ks, i + 1)

\* ChainMap.__iter__: the keys of the maps, taken from the last map to the
\* first.
RECURSIVE ChainKeys(_, _, _)
ChainKeys(maps, j, d) ==
    IF j = 0 THEN d
    ELSE ChainKeys(maps, j - 1, AddKeys(d, KeysOf(maps[j].kv), 1))

\* iter(v) of a mapping: its keys in iteration order.
Keys(v) ==
    IF v.cls = "ChainMap" THEN ChainKeys(v.el, Len(v.el), <<>>)
    ELSE KeysOf(v.kv)

Lookup(kv, k) == kv[CHOOSE i \in 1..Len(kv) : kv[i].k = k].v

\* v[k] of a mapping; a ChainMap answers from the first map holding k.
GetItem(v, k) ==
    IF v.cls = "ChainMap"
    THEN LET j == CHOOSE j \in 1..Len(v.el) :
                    /\ Contains(KeysOf(v.el[j].kv), k)
                    /\ \A h \in 1..(j - 1) : ~Contains(KeysOf(v.el[h].kv), k)
         IN Lookup(v.el[j].kv, k)
    ELSE Lookup(v.kv, k)

\* Dict with the keys taken in reverse iteration order.
DictReversed(v) ==
    LET ks == Keys(v)
        n == Len(ks)
    IN MapOf("dict", [i \in 1..n |-> Pair(ks[n + 1 - i], GetItem(v, ks[n + 1 - i]))])

\* dict(v) of a mapping: v[k] for each key k of v.keys(), in that order.
Dict(v) ==
    LET ks == Keys(v)
    IN MapOf("dict", [i \in 1..Len(ks) |-> Pair(ks[i], GetItem(v, ks[i]))])

\* v._asdict() of a named tuple: its fields and their values.
AsDict(v) == MapOf("dict", v.kv)

\* List with the elements in reverse order: list(reversed(v)).
ListReversed(v) ==
    LET e == CASE v.cls = "str"   -> [i \in 1..Len(v.chars) |-> Str(<<v.chars[i]>>)]
               [] v.cls = "bytes" -> [i \in 1..Len(v.chars) |-> Int(v.chars[i])]
               [] v.cls \in {"Count", "CaptureResult"}
                                  -> [i \in 1..Len(v.kv) |-> v.kv[i].v]
               [] OTHER           -> v.el
    IN SeqOf("list", [i \in 1..Len(e) |-> e[Len(e) + 1 - i]])

\* list(v) of a sequence: a str gives its characters, bytes give their
\* integer values, a named tuple gives its field values.
List(v) ==
    SeqOf("list",
          CASE v.cls = "str"   -> [i \in 1..Len(v.chars) |-> Str(<<v.chars[i]>>)]
            [] v.cls = "bytes" -> [i \in 1..Len(v.chars) |-> Int(v.chars[i])]
            [] v.cls \in {"Count", "CaptureResult"}
                               -> [i \in 1..Len(v.kv) |-> v.kv[i].v]
            [] OTHER           -> v.el)

\* The line boundaries of str.splitlines within Chars, and of
\* bytes.splitlines.
StrBoundaries == {"LF", "CR", "FF"}
BytesBoundaries == {"LF", "CR"}

\* splitlines(): a boundary ends the current line and is dropped, CR LF is
\* one boundary, and what follows the last boundary is a line if not empty.
RECURSIVE SplitFrom(_, _, _, _, _)
SplitFrom(t, i, cur, acc, bnd) ==
    IF i > Len(t) THEN (IF cur = <<>> THEN acc ELSE Append(acc, cur))
    ELSE IF t[i] \in bnd
         THEN LET crlf == t[i] = "CR" /\ i < Len(t) /\ t[i + 1] = "LF"
              IN SplitFrom(t, IF crlf THEN i + 2 ELSE i + 1, <<>>,
                           Append(acc, cur), bnd)
         ELSE SplitFrom(t, i + 1, Append(cur, t[i]), acc, bnd)

\* SplitLines as s.split(boundary) would do it: text that ends with a
\* boundary gets an empty last line.
SplitLinesKeepTail(s) ==
    LET bnd == IF s.cls = "str" THEN StrBoundaries ELSE BytesBoundaries
        ls == SplitFrom(s.chars, 1, <<>>, <<>>, bnd)
        all == IF Len(s.chars) > 0 /\ s.chars[Len(s.chars)] \in bnd
               THEN Append(ls, <<>>) ELSE ls
    IN SeqOf("list", [i \in 1..Len(all) |-> Val(s.cls, <<>>, <<>>, all[i])])

\* s.splitlines() of a str or bytes s: the list of its lines.
SplitLines(s) ==
    LET ls == SplitFrom(s.chars, 1, <<>>, <<>>,
                        IF s.cls = "str" THEN StrBoundaries ELSE BytesBoundaries)
    IN SeqOf("list", [i \in 1..Len(ls) |-> Val(s.cls, <<>>, <<>>, ls[i])])

Out(v) == v.kv[1].v
Err(v) == v.kv[2].v

\* dict(out=v.out.splitlines(), err=v.err.splitlines())
CaptureLines(v) ==
    MapOf("dict", <<Pair("out", SplitLines(Out(v))), Pair("err", SplitLines(Err(v)))>>)

\* Canonicalize with _asdict tested before CaptureResult.
CanonicalizeAsDictFirst(v) ==
    IF IsMappingLike(v) THEN Dict(v)
    ELSE IF SupportsAsDict(v) THEN Dict(AsDict(v))
    ELSE IF IsCaptureResult(v) /\ IsStr(Out(v)) THEN CaptureLines(v)
    ELSE IF IsSequence(v) THEN List(v)
    ELSE v

\* Canonicalize with Sequence tested before _asdict.
CanonicalizeSequenceFirst(v) ==
    IF IsMappingLike(v) THEN Dict(v)
    ELSE IF IsCaptureResult(v) /\ IsStr(Out(v)) THEN CaptureLines(v)
    ELSE IF IsSequence(v) THEN List(v)
    ELSE IF SupportsAsDict(v) THEN Dict(AsDict(v))
    ELSE v

\* The conversion at the head of AdvancedDataRegressionFixture.check.
Canonicalize(v) ==
    IF IsMappingLike(v) THEN Dict(v)
    ELSE IF IsCaptureResult(v) /\ IsStr(Out(v)) THEN CaptureLines(v)
    ELSE IF SupportsAsDict(v) THEN Dict(AsDict(v))
    ELSE IF IsSequence(v) THEN List(v)
    ELSE v

----------------------------------------------------------------------------
\* The representers registered on RegressionYamlDumper, which serialize the
\* value check passes on, and every value nested in it.

\* The classes of type(v).__mro__ that matter to the dumper, nearest first.
Mro(c) ==
    CASE c = "DictSubclass"     -> <<"DictSubclass", "dict">>
      [] c = "OrderedDict"      -> <<"OrderedDict", "dict">>
      [] c = "Counter"          -> <<"Counter", "dict">>
      [] c = "defaultdict"      -> <<"defaultdict", "dict">>
      [] c = "InlineTableDict"  -> <<"DynamicInlineTableDict", "dict", "InlineTableDict">>
      [] c = "ChainMap"         -> <<"ChainMap", "MutableMapping", "Mapping">>
      [] c = "CustomMapping"    -> <<"CustomMapping", "Mapping">>
      [] c = "CustomSequence"   -> <<"CustomSequence", "Sequence">>
      [] c = "Count"            -> <<"Count", "tuple">>
      [] c = "CaptureResult"    -> <<"CaptureResult", "tuple">>
      [] c = "CaptureResultObj" -> <<"CaptureResult">>
      [] c = "PurePosixPath"    -> <<"PurePosixPath", "PurePath">>
      [] OTHER                  -> <<c>>

\* The classes the dumper represents by itself when they are the exact type
\* of the value.
YamlTypes == {"dict", "list", "tuple", "str", "bytes", "int"}

\* _representer_for(*data_type): the representer registered for a class.
Registered(c) ==
    CASE c \in {"Mapping", "OrderedDict", "Counter", "defaultdict",
                "mappingproxy", "InlineTableDict"} -> "_represent_mappings"
      [] c \in {"Sequence", "tuple"}               -> "_represent_sequences"
      [] c = "CaptureResult"                       -> "_represent_captureresult"
      [] c \in {"PurePath", "PurePosixPath"}       -> "_represent_pathlib"
      [] OTHER                                     -> "none"

\* The representer the dumper picks for a value of class c: its own for an
\* exact YAML type, else the one registered for the nearest class of the MRO.
RepresenterFor(c) ==
    IF c \in YamlTypes THEN "yaml"
    ELSE LET m == Mro(c)
             hits == {i \in 1..Len(m) : Registered(m[i]) # "none"}
         IN IF hits = {} THEN "none"
            ELSE Registered(m[CHOOSE i \in hits : \A j \in hits : i <= j])

\* A value no representer accepts.
Unrepresentable == Val("<unrepresentable>", <<>>, <<>>, <<>>)

\* dumper.represent_data(v): the document node of v, written as a value of
\* plain dicts, lists and scalars.
RECURSIVE represent_data(_)
represent_data(v) ==
    LET r == RepresenterFor(v.cls)
    IN CASE r = "yaml" /\ v.cls = "dict" ->
              MapOf("dict", [i \in 1..Len(v.kv) |->
                               Pair(v.kv[i].k, represent_data(v.kv[i].v))])
         [] r = "yaml" /\ v.cls \in {"list", "tuple"} ->
              SeqOf("list", [i \in 1..Len(v.el) |-> represent_data(v.el[i])])
         [] r = "yaml" /\ v.cls \in {"str", "bytes", "int"} -> v
         [] r = "_represent_mappings" -> represent_data(Dict(v))
         [] r = "_represent_sequences" ->
              IF SupportsAsDict(v) THEN represent_data(Dict(AsDict(v)))
              ELSE represent_data(List(v))
         [] r = "_represent_captureresult" -> represent_data(CaptureLines(v))
         [] r = "_represent_pathlib" -> Str(v.chars)
         [] OTHER -> Unrepresentable

----------------------------------------------------------------------------
\* The values given to check.

One   == Int("1")
Two   == Int("2")
Three == Int("3")

ABC == <<Pair("a", One), Pair("b", Two), Pair("c", Three)>>
CA  == <<Pair("c", Three), Pair("a", One)>>

Payloads == {<<>>, ABC, CA}

Elements == {<<>>, <<One, Two, Three>>, <<Str(<<"a">>), One>>}

\* The second stream of a captured result.
ErrTexts == {<<>>, <<"a", "SP">>, <<"a", "LF", "TAB">>}

PlainInputs ==
    {MapOf(c, kv) : c \in MappingClasses \ {"ChainMap"}, kv \in Payloads}
    \cup {ChainMapOf(<<MapOf("dict", <<Pair("a", One)>>),
                       MapOf("dict", <<Pair("b", Two)>>),
                       MapOf("dict", <<Pair("c", Three)>>)>>),
          ChainMapOf(<<MapOf("dict", <<Pair("a", One), Pair("b", Two)>>),
                       MapOf("dict", <<Pair("c", Three), Pair("a", Three)>>)>>),
          ChainMapOf(<<MapOf("dict", <<>>)>>)}
    \cup {SeqOf(c, el) : c \in {"list", "tuple", "CustomSequence"}, el \in Elements}
    \cup {MapOf("Count", ABC),
          MapOf("Count", <<Pair("a", Three), Pair("b", Two), Pair("c", One)>>)}
    \cup {Str(t) : t \in Texts}
    \cup {Bytes(t) : t \in Texts}
    \cup {Capture(c, Val(k, <<>>, <<>>, t), Val(k, <<>>, <<>>, e)) :
            c \in {"CaptureResult", "CaptureResultObj"}, k \in {"str", "bytes"},
            t \in Texts, e \in ErrTexts}
    \cup {One, Path(<<"a">>)}

Hello == Capture("CaptureResult", Str(<<"a", "LF", "TAB", "a", "TAB", "LF">>),
                 Str(<<"a", "SP", "SP", "LF">>))

\* The nested values of the test suite.
NestedInputs ==
    {MapOf("OrderedDict", <<Pair("a", MapOf("mappingproxy", <<Pair("a", One)>>))>>),
     MapOf("OrderedDict", <<Pair("a", SeqOf("CustomSequence", <<One, Two, Three>>))>>),
     SeqOf("CustomSequence", <<MapOf("mappingproxy", <<Pair("a", One)>>)>>),
     MapOf("CustomMapping", <<Pair("a", MapOf("Count", ABC))>>),
     MapOf("OrderedDict", <<Pair("a", Hello)>>),
     Hello}

Inputs == PlainInputs \cup NestedInputs

----------------------------------------------------------------------------
\* The file regression fixture: AdvancedFileRegressionFixture, and the
\* functions check_file_regression and check_file_output.

MaxFiles == 2

\* The extension argument None.
None == <<"None">>

DotPy == <<".", "p", "y">>

UnderPy == <<".", "_", "p", "y", "_">>

DotTxt == <<".", "t", "x", "t">>

\* The names of the files a test checks: file.txt and file.py of the test
\* suite, a suffix in capitals, a name without a suffix and a hidden file.
FileNames ==
    {<<"f", ".", "t", "x", "t">>, <<"f", ".", "p", "y">>, <<"f", ".", "P", "Y">>,
     <<"f">>, <<".", "p", "y">>}

\* The extension arguments: None (the default), the empty string and names.
Extensions == {None, <<>>, DotPy, DotTxt, UnderPy}

\* The characters a test writes to a file.
FileTexts == {<<"a">>, <<"a", "CR", "LF", "a">>}

\* A file that does not exist.
Absent == <<"<absent>">>

\* StringList(lines), and str() of it: the lines joined by newlines.
StringList(lines) == Val("StringList", <<>>, lines, <<>>)

RECURSIVE JoinLines(_)
JoinLines(lines) ==
    IF lines = <<>> THEN <<>>
    ELSE IF Len(lines) = 1 THEN lines[1].chars
    ELSE lines[1].chars \o <<"LF">> \o JoinLines(Tail(lines))

StrOf(sl) == Str(JoinLines(sl.el))

\* name.rfind('.'), counted from 1; 0 when the name holds no dot.
RECURSIVE RFind(_, _)
RFind(name, i) ==
    IF i = 0 THEN 0
    ELSE IF name[i] = "." THEN i
    ELSE RFind(name, i - 1)

\* PathPlus(filename).suffix: the name from its last dot on, unless that dot
\* is the first or the last character of the name.
Suffix(name) ==
    LET i == RFind(name, Len(name))
    IN  IF 1 < i /\ i < Len(name) THEN SubSeq(name, i, Len(name)) ELSE <<>>

\* filename.read_text(encoding="UTF-8"): the characters of the file with
\* "\r\n" and "\r" read as "\n".
RECURSIVE UniversalNewlines(_)
UniversalNewlines(t) ==
    IF t = <<>> THEN <<>>
    ELSE IF Head(t) = "CR"
         THEN IF Len(t) > 1 /\ t[2] = "LF"
              THEN <<"LF">> \o UniversalNewlines(SubSeq(t, 3, Len(t)))
              ELSE <<"LF">> \o UniversalNewlines(Tail(t))
    ELSE <<Head(t)>> \o UniversalNewlines(Tail(t))

read_text(t) == Str(UniversalNewlines(t))

\* The extension both file checks remap only when it came from the suffix.
ExtensionForSuffixOnly(extension, suffix) ==
    IF extension # None /\ extension # <<>> THEN extension
    ELSE IF suffix = DotPy THEN UnderPy ELSE suffix

\* extension = extension or filename.suffix; '.py' becomes '._py_'.
ExtensionFor(extension, suffix) ==
    LET e == IF extension = None \/ extension = <<>> THEN suffix ELSE extension
    IN  IF e = DotPy THEN UnderPy ELSE e

\* No call made to the regression check.
NoCall ==
    [to |-> "none", contents |-> Null, extension |-> <<>>, encoding |-> "",
     newline |-> "", force_regen |-> ""]

\* What one operation did: its arguments, the exception it raised, the
\* file operations and calls it made in order, and the call it made to the
\* regression check.
Outcome(raised, type_name, log, call) ==
    [raised |-> raised, type_name |-> type_name, log |-> log, call |-> call]

BoolName(b) == IF b THEN "True" ELSE "False"

\* A check that finds the type of its contents only after the regression
\* check has run.
FileCheckTypeErrorLate(self, contents, extension, log) ==
    LET c == IF contents.cls = "StringList" THEN StrOf(contents) ELSE contents
        made == [to |-> "perform_regression_check", contents |-> c,
                 extension |-> extension, encoding |-> "UTF-8", newline |-> "",
                 force_regen |-> BoolName(self.force_regen)]
    IN  IF c.cls # "str"
        THEN Outcome("TypeError", c.cls, Append(log, "perform_regression_check"), made)
        ELSE Outcome("none", "", Append(log, "perform_regression_check"), made)

\* AdvancedFileRegressionFixture.check(contents, extension=extension).
FileCheck(self, contents, extension, log) ==
    LET c == IF contents.cls = "StringList" THEN StrOf(contents) ELSE contents
    IN  IF c.cls # "str"
        THEN Outcome("TypeError", c.cls, log, NoCall)
        ELSE Outcome("none", "", Append(log, "perform_regression_check"),
                     [to |-> "perform_regression_check", contents |-> c,
                      extension |-> extension, encoding |-> "UTF-8", newline |-> "",
                      force_regen |-> BoolName(self.force_regen)])

\* check_file_regression(data, file_regression, extension, newline=newline).
CheckFileRegression(data, extension, newline, log) ==
    LET d == IF data.cls = "StringList" THEN StrOf(data) ELSE data
    IN  Outcome("none", "", Append(log, "FileRegressionFixture.check"),
                [to |-> "FileRegressionFixture.check", contents |-> d,
                 extension |-> extension, encoding |-> "UTF-8", newline |-> newline,
                 force_regen |-> ""])

\* A check_file that takes a missing file for an empty one.
CheckFileMissingAsEmpty(self, filename, extension) ==
    FileCheck(self,
              IF self.fs[filename] = Absent THEN Str(<<>>) ELSE read_text(self.fs[filename]),
              ExtensionFor(extension, Suffix(filename)), <<"read_text">>)

\* AdvancedFileRegressionFixture.check_file(filename, extension).
CheckFile(self, filename, extension) ==
    IF self.fs[filename] = Absent
    THEN Outcome("FileNotFoundError", "", <<"read_text">>, NoCall)
    ELSE FileCheck(self, read_text(self.fs[filename]),
                   ExtensionFor(extension, Suffix(filename)), <<"read_text">>)

\* check_file_output(filename, file_regression, extension).
CheckFileOutput(self, filename, extension) ==
    IF self.fs[filename] = Absent
    THEN Outcome("FileNotFoundError", "", <<"read_text">>, NoCall)
    ELSE CheckFileRegression(read_text(self.fs[filename]),
                             ExtensionFor(extension, Suffix(filename)), "LF",
                             <<"read_text">>)

\* The contents the tests check: texts, StringLists, and the values of
\* test_advanced_file_regression_bad_type.
FileContents ==
    {Str(<<"a", "LF", "a">>), Str(<<"a", "SP", "a">>), Str(<<>>),
     StringList(<<Str(<<"a">>), Str(<<"a">>)>>), StringList(<<>>),
     StringList(<<Str(<<"a">>), Str(<<>>), Str(<<"a">>)>>),
     Bytes(<<"a", "SP", "a">>), SeqOf("tuple", <<Str(<<"a", "SP", "a">>)>>),
     SeqOf("list", <<Str(<<"a", "SP", "a">>)>>), Int("12345")}

\* No operation yet.
NoOp ==
    [op |-> "none", filename |-> <<>>, extension |-> None, contents |-> Null,
     outcome |-> Outcome("none", "", <<>>, NoCall)]

\* A new test: an empty temporary directory and a new fixture.
FileInit ==
    [fs |-> [n \in FileNames |-> Absent], force_regen |-> FALSE,
     failed |-> FALSE, last |-> NoOp]

----------------------------------------------------------------------------
\* coincidence.params.param.  An optional argument is <<>> when it is None
\* and <<x>> when it is x.

MaxValues == 2

Given(x) == x # <<>>

ParamValue == {Str(<<"a">>), Str(<<"b">>), Int("4")}

RECURSIVE TuplesOfLen(_)
TuplesOfLen(n) ==
    IF n = 0 THEN {<<>>}
    ELSE {Append(t, v) : t \in TuplesOfLen(n - 1), v \in ParamValue}

\* *values
ParamValues == UNION {TuplesOfLen(n) : n \in 0..MaxValues}

\* id: None, a name, and the empty string.
ParamIds == {<<>>, <<Str(<<"c">>)>>, <<Str(<<>>)>>}

\* idx: None, and indices counted from either end.
ParamIdxs == {<<>>, <<Int("0")>>, <<Int("1")>>, <<Int("-1")>>, <<Int("2")>>}

Function(name) == Val("function", <<>>, <<>>, <<name>>)

\* key: None, operator.itemgetter(0), operator.itemgetter(1) and len.
ParamKeys ==
    {<<>>, <<Function("itemgetter(0)")>>, <<Function("itemgetter(1)")>>,
     <<Function("len")>>}

ParamMarks == {"()", "pytest.mark.xfail"}

Digits == <<"0", "1", "2", "3", "4", "5", "6", "7", "8", "9">>

\* The sign of an int, and the number it is or is the negative of.
Negative(i) == i.chars[1] = "-1"

Magnitude(i) ==
    IF Negative(i) THEN 1
    ELSE CHOOSE n \in 0..9 : Digits[n + 1] = i.chars[1]

\* Whether t[i] exists, and its value: i counts from 0, and from the end
\* when it is negative.
InRange(t, i) ==
    IF Negative(i) THEN Magnitude(i) <= Len(t) ELSE Magnitude(i) < Len(t)

GetIndex(t, i) ==
    IF Negative(i) THEN t[Len(t) + 1 - Magnitude(i)] ELSE t[Magnitude(i) + 1]

\* Whether key(values) returns, and what it returns.
KeyReturns(k, values) ==
    CASE k = Function("itemgetter(0)") -> InRange(values, Int("0"))
      [] k = Function("itemgetter(1)") -> InRange(values, Int("1"))
      [] OTHER -> TRUE

CallKey(k, values) ==
    CASE k = Function("itemgetter(0)") -> GetIndex(values, Int("0"))
      [] k = Function("itemgetter(1)") -> GetIndex(values, Int("1"))
      [] OTHER -> Int(Digits[Len(values) + 1])

\* No call made to ParameterSet.param.
NoParameterSet == [made |-> FALSE, values |-> <<>>, marks |-> "", id |-> <<>>]

ParameterSet(values, marks, id) ==
    [made |-> TRUE, values |-> values, marks |-> marks, id |-> id]

Returned(raised, effects, call) ==
    [raised |-> raised, effects |-> effects, call |-> call]

\* x is not None, taken for the truth of x: 0 and '' count as not given.
Truthy(x) == Given(x) /\ x[1] # Int("0") /\ x[1] # Str(<<>>)

\* A param that counts the arguments that are true.
ParamCountsTruthy(values, marks, id, idx, key) ==
    IF Cardinality({i \in 1..3 : Truthy(<<id, idx, key>>[i])}) > 1
    THEN Returned("ValueError", <<>>, NoParameterSet)
    ELSE IF Given(idx)
         THEN IF InRange(values, idx[1])
              THEN Returned("none", <<"values[idx]">>,
                            ParameterSet(values, marks, <<GetIndex(values, idx[1])>>))
              ELSE Returned("IndexError", <<"values[idx]">>, NoParameterSet)
    ELSE IF Given(key)
         THEN IF KeyReturns(key[1], values)
              THEN Returned("none", <<"key(values)">>,
                            ParameterSet(values, marks, <<CallKey(key[1], values)>>))
              ELSE Returned("IndexError", <<"key(values)">>, NoParameterSet)
    ELSE Returned("none", <<>>, ParameterSet(values, marks, id))

\* A param that takes idx = 0 for no idx.
ParamIdxTruthy(values, marks, id, idx, key) ==
    IF Cardinality({i \in 1..3 : Given(<<id, idx, key>>[i])}) > 1
    THEN Returned("ValueError", <<>>, NoParameterSet)
    ELSE IF Truthy(idx)
         THEN IF InRange(values, idx[1])
              THEN Returned("none", <<"values[idx]">>,
                            ParameterSet(values, marks, <<GetIndex(values, idx[1])>>))
              ELSE Returned("IndexError", <<"values[idx]">>, NoParameterSet)
    ELSE IF Given(key)
         THEN IF KeyReturns(key[1], values)
              THEN Returned("none", <<"key(values)">>,
                            ParameterSet(values, marks, <<CallKey(key[1], values)>>))
              ELSE Returned("IndexError", <<"key(values)">>, NoParameterSet)
    ELSE Returned("none", <<>>, ParameterSet(values, marks, id))

\* param(*values, marks=marks, id=id, idx=idx, key=key)
Param(values, marks, id, idx, key) ==
    IF Cardinality({i \in 1..3 : Given(<<id, idx, key>>[i])}) > 1
    THEN Returned("ValueError", <<>>, NoParameterSet)
    ELSE IF Given(idx)
         THEN IF InRange(values, idx[1])
              THEN Returned("none", <<"values[idx]">>,
                            ParameterSet(values, marks, <<GetIndex(values, idx[1])>>))
              ELSE Returned("IndexError", <<"values[idx]">>, NoParameterSet)
    ELSE IF Given(key)
         THEN IF KeyReturns(key[1], values)
              THEN Returned("none", <<"key(values)">>,
                            ParameterSet(values, marks, <<CallKey(key[1], values)>>))
              ELSE Returned("IndexError", <<"key(values)">>, NoParameterSet)
    ELSE Returned("none", <<>>, ParameterSet(values, marks, id))

\* No call of param yet.
ParamInit ==
    [called |-> FALSE, values |-> <<>>, marks |-> "()", id |-> <<>>, idx |-> <<>>,
     key |-> <<>>, returned |-> Returned("none", <<>>, NoParameterSet)]

----------------------------------------------------------------------------
\* coincidence.utils: generate_truthy_values, generate_falsy_values and
\* whitespace_perms_list, and coincidence.params.whitespace_perms.

MaxExtra == 2

MaxSeed == 1

MaxCalls == 2

Bool(name) == Val("bool", <<>>, <<>>, <<name>>)

\* The truthy values with 'y' and 'Y' the other way round.
TruthyValuesSwapped(extra_truthy) ==
    <<Bool("True"), Str(<<"T", "r", "u", "e">>), Str(<<"t", "r", "u", "e">>),
      Str(<<"t", "R", "U", "e">>), Str(<<"Y">>), Str(<<"y">>),
      Str(<<"Y", "E", "S">>), Str(<<"y", "e", "s">>), Str(<<"Y", "e", "s">>),
      Str(<<"y", "E", "s">>), Str(<<"O", "N">>), Str(<<"o", "n">>),
      Str(<<"1">>), Int("1")>> \o extra_truthy

\* truthy_values = [True, "True", ..., 1, *extra_truthy]
TruthyValues(extra_truthy) ==
    <<Bool("True"), Str(<<"T", "r", "u", "e">>), Str(<<"t", "r", "u", "e">>),
      Str(<<"t", "R", "U", "e">>), Str(<<"y">>), Str(<<"Y">>),
      Str(<<"Y", "E", "S">>), Str(<<"y", "e", "s">>), Str(<<"Y", "e", "s">>),
      Str(<<"y", "E", "s">>), Str(<<"O", "N">>), Str(<<"o", "n">>),
      Str(<<"1">>), Int("1")>> \o extra_truthy

\* The falsy values with four spellings of no and two of off.
FalsyValuesMirrored(extra_falsy) ==
    <<Bool("False"), Str(<<"F", "a", "l", "s", "e">>),
      Str(<<"f", "a", "l", "s", "e">>), Str(<<"f", "a", "l", "S", "E">>),
      Str(<<"n">>), Str(<<"N">>), Str(<<"N", "O">>), Str(<<"n", "o">>),
      Str(<<"N", "o">>), Str(<<"n", "O">>), Str(<<"O", "F", "F">>),
      Str(<<"o", "f", "f">>), Str(<<"0">>), Int("0")>> \o extra_falsy

\* falsy_values = [False, "False", ..., 0, *extra_falsy]
FalsyValues(extra_falsy) ==
    <<Bool("False"), Str(<<"F", "a", "l", "s", "e">>),
      Str(<<"f", "a", "l", "s", "e">>), Str(<<"f", "a", "l", "S", "E">>),
      Str(<<"n">>), Str(<<"N">>), Str(<<"N", "O">>), Str(<<"n", "o">>),
      Str(<<"n", "O">>), Str(<<"O", "F", "F">>), Str(<<"o", "f", "f">>),
      Str(<<"o", "F", "F">>), Str(<<"0">>), Int("0")>> \o extra_falsy

\* The extra values a caller passes.
ExtraValue == {Str(<<"b", "a", "r">>), Int("1")}

RECURSIVE ExtrasOfLen(_)
ExtrasOfLen(n) ==
    IF n = 0 THEN {<<>>}
    ELSE {Append(t, v) : t \in ExtrasOfLen(n - 1), v \in ExtraValue}

Extras == UNION {ExtrasOfLen(n) : n \in 0..MaxExtra}

\* The ratios, in tenths: 0, 0.1, 0.3, 0.5, 1 and 2.
Ratios == {0, 1, 3, 5, 10, 20}

\* int(n * ratio), rounded to the nearest integer.
SampleSizeRounded(n, ratio) == (n * ratio + 5) \div 10

\* int(n * ratio), the ratio in tenths: the product is truncated.
SampleSize(n, ratio) == (n * ratio) \div 10

\* The choices random.sample makes: where it starts in the population and
\* whether it walks it forwards or backwards.
Seeds == 0..MaxSeed

Strides(n) == {1} \cup {s \in {n - 1} : s >= 1}

\* A sample that may take a position again.
SamplePositionsWithReplacement(n, k, seed, stride) ==
    [j \in 1..k |-> ((seed + ((j - 1) \div 2) * stride) % n) + 1]

\* The positions random.sample takes from a population of n: k of them,
\* no position twice.
SamplePositions(n, k, seed, stride) ==
    [j \in 1..k |-> ((seed + (j - 1) * stride) % n) + 1]

\* random.sample(population, k): k elements at distinct positions.
Sample(population, k, seed, stride) ==
    LET positions == SamplePositions(Len(population), k, seed, stride)
    IN  [j \in 1..k |-> population[positions[j]]]

\* The positions of the values a generator yields: those of the sample
\* if ratio < 1, every position in order otherwise.
Positions(n, ratio, seed, stride) ==
    IF ratio < 10
    THEN SamplePositions(n, SampleSize(n, ratio), seed, stride)
    ELSE [j \in 1..n |-> j]

Yielded(raised, values) == [raised |-> raised, values |-> values]

\* A generator that samples at every ratio up to 1.
GenerateSamplesAtOne(values, ratio, seed, stride) ==
    IF ratio <= 10
    THEN Yielded("none", Sample(values, SampleSize(Len(values), ratio), seed, stride))
    ELSE Yielded("none", values)

\* if ratio < 1: values = random.sample(values, int(len(values) * ratio));
\* yield from values
Generate(values, ratio, seed, stride) ==
    IF ratio < 10
    THEN Yielded("none", Sample(values, SampleSize(Len(values), ratio), seed, stride))
    ELSE Yielded("none", values)

whitespace == <<"SP", "TAB", "LF", "CR">>

\* The pool without its i-th element.
Without(pool, i) == SubSeq(pool, 1, i - 1) \o SubSeq(pool, i + 1, Len(pool))

PrependAll(c, ps) == [k \in 1..Len(ps) |-> <<c>> \o ps[k]]

\* itertools.permutations(pool, n), in the order it yields them.
RECURSIVE permutations(_, _), PermutationsFrom(_, _, _)
permutations(pool, n) ==
    IF n = 0 THEN << <<>> >> ELSE PermutationsFrom(pool, n, 1)

PermutationsFrom(pool, n, i) ==
    IF i > Len(pool) THEN <<>>
    ELSE PrependAll(pool[i], permutations(Without(pool, i), n - 1))
             \o PermutationsFrom(pool, n, i + 1)

\* chain.from_iterable(permutations(pool, n) for n in range(from, stop))
RECURSIVE ChainPermutations(_, _, _)
ChainPermutations(pool, from, stop) ==
    IF from >= stop THEN <<>>
    ELSE permutations(pool, from) \o ChainPermutations(pool, from + 1, stop)

\* ''.join(x) for x in perms
JoinAll(perms) == [k \in 1..Len(perms) |-> Str(perms[k])]

\* The permutations of every length from 1 to len(whitespace).
WhitespacePermsOneToFour ==
    JoinAll(ChainPermutations(whitespace, 1, Len(whitespace) + 1))

\* whitespace_perms_list(): Len(whitespace) is range(0, len(whitespace)).
WhitespacePermsList ==
    JoinAll(ChainPermutations(whitespace, 0, Len(whitespace)))

\* whitespace_perms(ratio): the values of the argument 'char'.
WhitespacePerms(ratio, seed, stride) ==
    LET perms == WhitespacePermsList
        k == SampleSize(Len(perms), ratio)
    IN  IF k > Len(perms)
        THEN [raised |-> "ValueError", argnames |-> "", argvalues |-> <<>>,
              positions |-> <<>>]
        ELSE [raised |-> "none", argnames |-> "char",
              argvalues |-> Sample(perms, k, seed, stride),
              positions |-> SamplePositions(Len(perms), k, seed, stride)]

\* A whitespace_perms_list without its cache: every call makes a list.
Uncached(cache, cached, computed) ==
    [items |-> WhitespacePermsList, object |-> computed + 1,
     computed |-> computed + 1]

\* @lru_cache(1) on a function without arguments: the list in the cache
\* if there is one, or else the list the body makes, which is the
\* computed-th list object of the process.
LruCache(cache, cached, computed) ==
    IF cache # <<>>
    THEN [items |-> cache, object |-> cached, computed |-> computed]
    ELSE [items |-> WhitespacePermsList, object |-> computed + 1,
          computed |-> computed + 1]

\* No call yet, and nothing in the cache of whitespace_perms_list.
UtilInit ==
    [op |-> "none", calls |-> 0, extra |-> <<>>, extra_after |-> <<>>, ratio |-> 10,
     raised |-> "none", values |-> <<>>, argnames |-> "", cache |-> <<>>,
     cached |-> 0, computed |-> 0, object |-> 0, positions |-> <<>>]

----------------------------------------------------------------------------
\* coincidence.params.testing_boolean_values.

\* The pairs with the fill value first.
ZipLongestFillFirst(values, fillvalue) ==
    [i \in 1..Len(values) |-> <<fillvalue, values[i]>>]

\* itertools.zip_longest(values, [], fillvalue=fillvalue)
ZipLongest(values, fillvalue) ==
    [i \in 1..Len(values) |-> <<values[i], fillvalue>>]

\* testing_boolean_values(extra_truthy, extra_falsy, ratio); st and sf are
\* the choices of random.sample in the two generators.
TestingBooleanValues(extra_truthy, extra_falsy, ratio, st, sf) ==
    LET truthy == Generate(TruthyValues(extra_truthy), ratio, st[1], st[2]).values
        falsy == Generate(FalsyValues(extra_falsy), ratio, sf[1], sf[2]).values
    IN  [truthy |-> truthy, falsy |-> falsy,
         argnames |-> "boolean_string, expected_boolean",
         argvalues |-> ZipLongest(truthy, Bool("True"))
                           \o ZipLongest(falsy, Bool("False"))]

\* No call of testing_boolean_values yet.
BoolsInit ==
    [called |-> FALSE, extra_truthy |-> <<>>, extra_falsy |-> <<>>, ratio |-> 10,
     truthy |-> <<>>, falsy |-> <<>>, argnames |-> "", argvalues |-> <<>>]

----------------------------------------------------------------------------
\* coincidence.selectors: the version selectors and platform_boolean_factory;
\* coincidence.params.parametrized_versions.

MaxVersions == 2

\* A version argument: a str and a float are given by their characters, a
\* float by those of its literal; a tuple and a Version by their numbers.
VersionArg(kind, text, items) == [kind |-> kind, text |-> text, items |-> items]

VStr(text) == VersionArg("str", text, <<>>)

VFloat(literal) == VersionArg("float", literal, <<>>)

VTuple(items) == VersionArg("tuple", <<>>, items)

\* str(n)
DigitsOf(n) ==
    IF n < 10 THEN <<Digits[n + 1]>> ELSE <<Digits[(n \div 10) + 1], Digits[(n % 10) + 1]>>

DigitValue(c) == CHOOSE d \in 0..9 : Digits[d + 1] = c

\* int(x)
RECURSIVE ParseInt(_)
ParseInt(x) ==
    IF Len(x) = 1 THEN DigitValue(x[1])
    ELSE 10 * ParseInt(SubSeq(x, 1, Len(x) - 1)) + DigitValue(x[Len(x)])

\* re.split("[.,]", version_string)
RECURSIVE SplitVersion(_, _)
SplitVersion(text, piece) ==
    IF text = <<>> THEN <<piece>>
    ELSE IF Head(text) \in {".", ","} THEN <<piece>> \o SplitVersion(Tail(text), <<>>)
    ELSE SplitVersion(Tail(text), Append(piece, Head(text)))

RECURSIVE StripZeros(_)
StripZeros(digits) ==
    IF Len(digits) > 1 /\ digits[Len(digits)] = "0"
    THEN StripZeros(SubSeq(digits, 1, Len(digits) - 1))
    ELSE digits

\* str(version_float): the shortest text that reads as the float, which
\* has no zero at the end of its fraction.
FloatStr(literal) ==
    LET parts == SplitVersion(literal, <<>>)
    IN  parts[1] \o <<".">> \o StripZeros(parts[2])

\* Version(*numbers): major, minor and patch, 0 when not given.
NewVersion(numbers) ==
    IF Len(numbers) > 3 THEN [raised |-> "TypeError", version |-> <<>>]
    ELSE [raised |-> "none",
          version |-> [i \in 1..3 |-> IF i <= Len(numbers) THEN numbers[i] ELSE 0]]

\* Version.from_str(version_string)
FromStr(text) ==
    LET pieces == SplitVersion(text, <<>>)
    IN  IF \E i \in 1..Len(pieces) : pieces[i] = <<>>
        THEN [raised |-> "ValueError", version |-> <<>>]
        ELSE NewVersion([i \in 1..Len(pieces) |-> ParseInt(pieces[i])])

\* _make_version(version)
MakeVersion(version) ==
    IF version.kind = "float" THEN FromStr(FloatStr(version.text))
    ELSE IF version.kind = "str" THEN FromStr(version.text)
    ELSE NewVersion(version.items)

\* a < b for tuples of numbers.
RECURSIVE TupleLess(_, _)
TupleLess(a, b) ==
    IF b = <<>> THEN FALSE
    ELSE IF a = <<>> THEN TRUE
    ELSE IF Head(a) # Head(b) THEN Head(a) < Head(b)
    ELSE TupleLess(Tail(a), Tail(b))

\* str(version_): "v3.9.0"
VersionStr(v) ==
    <<"v">> \o DigitsOf(v[1]) \o <<".">> \o DigitsOf(v[2]) \o <<".">> \o DigitsOf(v[3])

\* f"{version_.major}.{version_.minor}"
MajorMinor(v) == DigitsOf(v[1]) \o <<".">> \o DigitsOf(v[2])

\* pytest.mark.skipif(condition=condition, reason=reason)
SkipIf(condition, reason) == [name |-> "skipif", condition |-> condition, reason |-> reason]

NoMark == [name |-> "", condition |-> FALSE, reason |-> <<>>]

Marked(raised, version, mark) == [raised |-> raised, version |-> version, mark |-> mark]

\* sys.version_info[:3] < version_
MinVersionCondition(running, v) == TupleLess(running, v)

\* The condition of max_version without the micro versions.
MaxVersionIgnoresMicro(running, v) == TupleLess(SubSeq(v, 1, 2), SubSeq(running, 1, 2))

\* sys.version_info[:3] > version_
MaxVersionCondition(running, v) == TupleLess(v, running)

\* The condition of only_version with the micro versions.
OnlyVersionWithMicro(running, v) == running # v

\* sys.version_info[:2] != version_[:2]
OnlyVersionCondition(running, v) == SubSeq(running, 1, 2) # SubSeq(v, 1, 2)

\* The reason of a selector: the one given, or the default one.
ReasonOr(reason, default) == IF reason = <<>> THEN default ELSE reason[1]

\* min_version(version, reason)
MinVersion(version, reason, running) ==
    LET made == MakeVersion(version)
        v == made.version
    IN  IF made.raised # "none" THEN Marked(made.raised, <<>>, NoMark)
        ELSE Marked("none", v,
                    SkipIf(MinVersionCondition(running, v),
                           ReasonOr(reason, <<"Requires Python ">> \o VersionStr(v)
                                                \o <<" or greater.">>)))

\* max_version(version, reason)
MaxVersion(version, reason, running) ==
    LET made == MakeVersion(version)
        v == made.version
    IN  IF made.raised # "none" THEN Marked(made.raised, <<>>, NoMark)
        ELSE Marked("none", v,
                    SkipIf(MaxVersionCondition(running, v),
                           ReasonOr(reason, <<"Not needed after Python ">> \o VersionStr(v)
                                                \o <<".">>)))

\* only_version(version, reason)
OnlyVersion(version, reason, running) ==
    LET made == MakeVersion(version)
        v == made.version
    IN  IF made.raised # "none" THEN Marked(made.raised, <<>>, NoMark)
        ELSE Marked("none", v,
                    SkipIf(OnlyVersionCondition(running, v),
                           ReasonOr(reason, <<"Not needed on Python ">> \o VersionStr(v)
                                                \o <<".">>)))

\* The reasons argument: a str, or the optional reasons of an iterable.
ReasonsStr(text) == [kind |-> "str", text |-> text, items |-> <<>>]

ReasonsList(items) == [kind |-> "list", text |-> <<>>, items |-> items]

\* The reasons, then the first of them until there are n.
ExtendWithFirst(items, n) ==
    [i \in 1..(IF Len(items) > n THEN Len(items) ELSE n) |->
        IF i <= Len(items) THEN items[i]
        ELSE IF items = <<>> THEN <<>> ELSE items[1]]

\* extend_with_none(reasons, n): the reasons, then None until there are n.
ExtendWithNone(items, n) ==
    [i \in 1..(IF Len(items) > n THEN Len(items) ELSE n) |->
        IF i <= Len(items) THEN items[i] ELSE <<>>]

\* pytest.param(value, marks=mark)
VersionParam(value, mark) == [values |-> <<value>>, marks |-> <<mark>>, id |-> <<>>]

\* zip(version_list, reasons): the pairs up to the end of the shorter one.
Zip(versions, reasons) ==
    [i \in 1..(IF Len(versions) < Len(reasons) THEN Len(versions) ELSE Len(reasons)) |->
        <<versions[i], reasons[i]>>]

\* The reasons, one for each version.
ReasonsFor(reasons, n) ==
    IF reasons.kind = "str" THEN [i \in 1..n |-> <<reasons.text>>]
    ELSE ExtendWithNone(reasons.items, n)

\* parametrized_versions(*versions, reasons=reasons)
ParametrizedVersions(versions, reasons, running) ==
    LET pairs == Zip(versions, ReasonsFor(reasons, Len(versions)))
        made == [i \in 1..Len(pairs) |-> MakeVersion(pairs[i][1])]
    IN  IF \E i \in 1..Len(pairs) : made[i].raised # "none"
        THEN [raised |-> made[CHOOSE i \in 1..Len(pairs) :
                                 /\ made[i].raised # "none"
                                 /\ \A j \in 1..(i - 1) : made[j].raised = "none"].raised,
              params |-> <<>>]
        ELSE [raised |-> "none",
              params |-> [i \in 1..Len(pairs) |->
                  VersionParam(MajorMinor(made[i].version),
                               OnlyVersion(VTuple(made[i].version), pairs[i][2], running).mark)]]

\* platform.lower()
PlatformLower(platform) ==
    CASE platform = "Windows" -> "windows"
      [] platform = "macOS" -> "macos"
      [] platform = "Linux" -> "linux"
      [] platform = "Docker" -> "docker"
      [] platform = "PyPy" -> "pypy"
      [] OTHER -> platform

\* No factory called yet.
NoFactory ==
    [made |-> FALSE, condition |-> FALSE, platform |-> "", not_name |-> <<>>,
     only_name |-> <<>>, versionadded_string |-> <<>>, module |-> ""]

\* platform_boolean_factory(condition, platform, versionadded): the pair of
\* functions, which hold the condition and the platform.
PlatformBooleanFactory(condition, platform, versionadded) ==
    [made |-> TRUE, condition |-> condition, platform |-> platform,
     not_name |-> <<"not_", PlatformLower(platform)>>,
     only_name |-> <<"only_", PlatformLower(platform)>>,
     versionadded_string |->
         IF versionadded # <<>> THEN <<".. versionadded:: ", versionadded[1], "\n">>
         ELSE <<>>,
     module |-> "coincidence.selectors"]

\* not_function(reason)
NotFunction(factory, reason) ==
    SkipIf(factory.condition, ReasonOr(reason, <<"Not", " required on ", factory.platform>>))

\* An only_function that skips on the condition.
OnlyFunctionSkipsOnCondition(factory, reason) ==
    SkipIf(factory.condition, ReasonOr(reason, <<"Only", " required on ", factory.platform>>))

\* only_function(reason)
OnlyFunction(factory, reason) ==
    SkipIf(~factory.condition, ReasonOr(reason, <<"Only", " required on ", factory.platform>>))

\* The version arguments: strings, floats by their literals, and tuples.
VersionArgs ==
    {VStr(<<"3", ".", "9">>), VStr(<<"3", ".", "1", "0">>), VStr(<<"3">>),
     VStr(<<"3", ".", "9", ".", "1">>), VStr(<<"4", ".", "1", "0">>), VStr(<<"3", ".">>),
     VFloat(<<"3", ".", "9">>), VFloat(<<"3", ".", "1", "0">>), VFloat(<<"3", ".", "1">>),
     VFloat(<<"3", ".", "0">>),
     VTuple(<<3, 9>>), VTuple(<<3, 10>>), VTuple(<<3>>), VTuple(<<3, 9, 1>>),
     VTuple(<<3, 4>>), VTuple(<<3, 9, 1, 2>>)}

\* sys.version_info[:3] of the interpreter that runs the tests.
Running ==
    {<<3, 1, 0>>, <<3, 4, 10>>, <<3, 9, 0>>, <<3, 9, 1>>, <<3, 10, 0>>, <<3, 10, 4>>,
     <<4, 10, 0>>, <<4, 10, 1>>}

\* reason: None, a text and the empty string.
Reasons == {<<>>, << <<"Success">> >>, << <<>> >>}

\* The versions of parametrized_versions.
ListedVersions ==
    {VStr(<<"3", ".", "9">>), VTuple(<<3, 10>>), VFloat(<<"3", ".", "9">>),
     VStr(<<"3", ".", "9", ".", "1">>), VTuple(<<3, 9, 1, 2>>)}

RECURSIVE VersionsOfLen(_)
VersionsOfLen(n) ==
    IF n = 0 THEN {<<>>}
    ELSE {Append(t, v) : t \in VersionsOfLen(n - 1), v \in ListedVersions}

VersionLists == UNION {VersionsOfLen(n) : n \in 0..MaxVersions}

\* reasons: a string, and lists shorter and longer than the versions.
ReasonsArgs ==
    {ReasonsStr(<<"Output differs">>), ReasonsStr(<<>>), ReasonsList(<<>>),
     ReasonsList(<< << <<"first">> >> >>),
     ReasonsList(<< <<>>, << <<"second">> >> >>),
     ReasonsList(<< << <<"first">> >>, << <<"second">> >>, << <<"third">> >>,
                    << <<"fourth">> >> >>)}

Platforms == {"Windows", "macOS", "Linux", "Docker", "PyPy"}

\* No selector called yet; current is what the condition of a platform
\* would be if it were evaluated now, and seen what it was when the last
\* mark was made.
SelInit ==
    [op |-> "none", version |-> VTuple(<<>>), reason |-> <<>>, running |-> <<>>,
     raised |-> "none", version_ |-> <<>>, mark |-> NoMark,
     versions |-> <<>>, reasons |-> ReasonsList(<<>>), params |-> <<>>,
     factory |-> NoFactory, current |-> FALSE, seen |-> FALSE]

\* ---------------------------------------------------------------------
\* is_docker (utils.py).  The filesystem holds the two paths the function
\* looks at: _dockerenv, which exists or not, and _cgroup, which is absent,
\* a directory, or a regular file of lines.  A line is a sequence of
\* pieces of text, none of which has "docker" across a boundary.

CgroupLines ==
    { <<>>,
      << <<"HelloWorld">>, <<>>, <<"docker">>, <<"Python">> >>,
      << <<"HelloWorld">>, <<"Python">> >>,
      << <<"12:cpu:/", "docker", "/0a1b">> >>,
      << <<"Docker">>, <<"dock">> >> }

\* "docker" in line
InLine(line) == \E i \in 1..Len(line) : line[i] = "docker"

\* A scan that wants "docker" in every line.
EveryLineDocker(lines) == \A i \in 1..Len(lines) : InLine(lines[i])

\* any("docker" in line for line in lines)
AnyLineDocker(lines) == \E i \in 1..Len(lines) : InLine(lines[i])

\* _cgroup.is_file()
IsFile(cgroup) == cgroup = "file"

\* _cgroup.read_lines() inside the try: the answer of is_docker, or the
\* exception that leaves it.  FileNotFoundError is caught.
ReadLines(cgroup, lines) ==
    IF cgroup = "file" THEN (IF AnyLineDocker(lines) THEN "True" ELSE "False")
    ELSE IF cgroup = "absent" THEN "False"
    ELSE "IsADirectoryError"

EnvInit ==
    [dockerenv |-> FALSE, cgroup |-> "absent", lines |-> <<>>,
     pc |-> "idle", result |-> "none", previous |-> "none",
     changed |-> FALSE, vanished |-> FALSE]

\* ---------------------------------------------------------------------
\* with_fixed_datetime (utils.py) and the fixed_datetime fixture.
\* A datetime has the fields the code reads and a tzinfo, <<>> (naive) or
\* <<h>>, a fixed offset of h hours east of UTC.  The dates used stay
\* clear of the ends of their month, so that the arithmetic of a
\* timestamp moves the day only.

MaxDepth == 2

Naive == <<>>

Datetime(year, month, day, hour, minute, tzinfo) ==
    [year |-> year, month |-> month, day |-> day, hour |-> hour,
     minute |-> minute, tzinfo |-> tzinfo]

\* datetime.date(year, month, day)
Date(year, month, day) == [year |-> year, month |-> month, day |-> day]

\* The answers of the classes that are not patched: the clock of the
\* machine, which is none of the fixed datetimes.
ClockNow == Datetime(0, 0, 0, 0, 0, Naive)
ClockToday == Date(0, 0, 0)

MinutesOf(d) == d.day * 1440 + d.hour * 60 + d.minute

\* fixed_datetime.timestamp(): a naive datetime is taken as local time,
\* an aware one by its own offset.  Minutes of UTC in the month.
Timestamp(d, local) ==
    [year |-> d.year, month |-> d.month,
     minutes |-> MinutesOf(d)
                 - 60 * (IF d.tzinfo = Naive THEN local ELSE d.tzinfo[1])]

\* datetime.datetime.fromtimestamp(t): the naive local time of t.
FromTimestamp(t, local) ==
    LET m == t.minutes + 60 * local
    IN  Datetime(t.year, t.month, m \div 1440, (m % 1440) \div 60, m % 60,
                 Naive)

\* datetime.datetime(fixed.year, fixed.month, fixed.day)
MidnightOf(fixed) == Datetime(fixed.year, fixed.month, fixed.day, 0, 0, Naive)

\* datetime.date(fixed.year, fixed.month, fixed.day)
DateOf(fixed) == Date(fixed.year, fixed.month, fixed.day)

\* The attributes with_fixed_datetime sets: the two classes of the
\* module (CPython) or three methods of them (PyPy).  <<>> is the
\* attribute of the standard library, <<b>> the one made by block b.
Attributes ==
    {"date", "datetime", "date.today", "datetime.today", "datetime.now"}

Original == [name \in Attributes |-> <<>>]

\* with pytest.MonkeyPatch.context() as monkeypatch: the module and the
\* list of (name, old value) to undo.
MonkeyPatchContext(module) == [module |-> module, setattrs |-> <<>>]

\* monkeypatch.setattr(target, name, value)
SetAttr(monkeypatch, name, value) ==
    [module |-> [monkeypatch.module EXCEPT ![name] = value],
     setattrs |-> <<[name |-> name, old |-> monkeypatch.module[name]]>>
                  \o monkeypatch.setattrs]

\* monkeypatch.undo(): the old values, last set first.
RECURSIVE Undo(_, _)
Undo(module, setattrs) ==
    IF setattrs = <<>> THEN module
    ELSE Undo([module EXCEPT ![setattrs[1].name] = setattrs[1].old],
              Tail(setattrs))

\* The body of with_fixed_datetime up to the yield.
WithFixedDatetime(module, pypy, block) ==
    IF pypy
    THEN SetAttr(SetAttr(SetAttr(MonkeyPatchContext(module),
                                 "date.today", <<block>>),
                         "datetime.today", <<block>>),
                 "datetime.now", <<block>>)
    ELSE SetAttr(SetAttr(MonkeyPatchContext(module), "date", <<block>>),
                 "datetime", <<block>>)

\* datetime.datetime.now()
Now(module, local) ==
    IF module["datetime.now"] # <<>>
    THEN module["datetime.now"][1].fixed
    ELSE IF module["datetime"] # <<>>
    THEN FromTimestamp(Timestamp(module["datetime"][1].fixed, local), local)
    ELSE ClockNow

\* datetime.datetime.today()
Today(module) ==
    IF module["datetime.today"] # <<>>
    THEN MidnightOf(module["datetime.today"][1].fixed)
    ELSE IF module["datetime"] # <<>>
    THEN MidnightOf(module["datetime"][1].fixed)
    ELSE ClockNow

\* datetime.date.today()
DateToday(module) ==
    IF module["date.today"] # <<>>
    THEN DateOf(module["date.today"][1].fixed)
    ELSE IF module["date"] # <<>>
    THEN DateOf(module["date"][1].fixed)
    ELSE ClockToday

\* The datetime of the fixed_datetime fixture.
FixtureDatetime == Datetime(2020, 10, 13, 2, 20, Naive)

FixedDatetimes ==
    { FixtureDatetime,
      Datetime(2020, 7, 4, 10, 0, Naive),
      Datetime(2020, 10, 13, 2, 20, <<0>>),
      Datetime(2020, 10, 13, 23, 30, <<2>>) }

\* Hours east of UTC of the local time zone.
LocalOffsets == {0, 2}

DtInit ==
    [started |-> FALSE, pypy |-> FALSE, local |-> 0, module |-> Original,
     blocks |-> <<>>, op |-> "none", result |-> ClockNow, calls |-> 0,
     left |-> <<>>, how |-> "none"]

----------------------------------------------------------------------------
\* The state: the argument of the last check, the value it passed on to
\* DataRegressionFixture.check, and the document the dumper builds of it;
\* then what a check of that canonical value passes on, and the document of
\* a check of the same argument nested in a container.

VARIABLES data_dict, canon, node, recheck, container, nested

\* The state of the other fixtures and helpers: the file regression fixture
\* and the files its tests write, the last call of param, and the helpers
\* of coincidence.utils.
VARIABLES file, pset, util

\* The last mark of testing_boolean_values, the last mark or parameter list
\* of the version and platform selectors, the files is_docker looks at and
\* the call of it in progress, and the datetime module with the blocks of
\* with_fixed_datetime that are active.
VARIABLES bools, sel, env, dt

data_vars == <<data_dict, canon, node, recheck, container, nested>>

vars ==
    <<data_dict, canon, node, recheck, container, nested, file, pset, util,
      bools, sel, env, dt>>

Init ==
    /\ data_dict = Null
    /\ canon = Null
    /\ node = Null
    /\ recheck = Null
    /\ container = "none"
    /\ nested = Null
    /\ file = FileInit
    /\ pset = ParamInit
    /\ util = UtilInit
    /\ bools = BoolsInit
    /\ sel = SelInit
    /\ env = EnvInit
    /\ dt = DtInit

\* advanced_data_regression.check(v), the first check of a test.
check(v) ==
    /\ data_dict = Null
    /\ data_dict' = v
    /\ canon' = Canonicalize(v)
    /\ node' = represent_data(Canonicalize(v))
    /\ recheck' = Null
    /\ container' = "none"
    /\ nested' = Null
    /\ UNCHANGED <<file, pset, util, bools, sel, env, dt>>

\* advanced_data_regression.check(c), c the value the last check passed on.
check_canonical ==
    /\ data_dict # Null
    /\ recheck = Null
    /\ recheck' = Canonicalize(canon)
    /\ UNCHANGED <<data_dict, canon, node, container, nested, file, pset, util,
                    bools, sel, env, dt>>

\* advanced_data_regression.check(OrderedDict({'a': v})), v the last argument.
check_in_mapping ==
    /\ data_dict # Null
    /\ container = "none"
    /\ container' = "OrderedDict"
    /\ nested' = represent_data(Canonicalize(MapOf("OrderedDict", <<Pair("a", data_dict)>>)))
    /\ UNCHANGED <<data_dict, canon, node, recheck, file, pset, util,
                    bools, sel, env, dt>>

\* advanced_data_regression.check(CustomSequence([v])), v the last argument.
check_in_sequence ==
    /\ data_dict # Null
    /\ container = "none"
    /\ container' = "CustomSequence"
    /\ nested' = represent_data(Canonicalize(SeqOf("CustomSequence", <<data_dict>>)))
    /\ UNCHANGED <<data_dict, canon, node, recheck, file, pset, util,
                    bools, sel, env, dt>>

\* The test ends; the next test is given a fixture of its own.
advanced_data_regression ==
    /\ data_dict # Null
    /\ data_dict' = Null
    /\ canon' = Null
    /\ node' = Null
    /\ recheck' = Null
    /\ container' = "none"
    /\ nested' = Null
    /\ UNCHANGED <<file, pset, util, bools, sel, env, dt>>

Next ==
    \/ \E v \in Inputs : check(v)
    \/ check_canonical
    \/ check_in_mapping
    \/ check_in_sequence
    \/ advanced_data_regression

Spec == Init /\ [][Next]_vars

----------------------------------------------------------------------------
\* The properties.

Checked == data_dict # Null

TextCapture(v) == IsCaptureResult(v) /\ IsStr(Out(v))

\* C1 as stated: check converts by the first category that matches in the
\* order mapping-like, _asdict, CaptureResult, sequence, so that a
\* CaptureResult exposing _asdict is converted via _asdict.
C1_AsDictBeforeCaptureResult ==
    Checked =>
        canon = (IF IsMappingLike(data_dict) THEN MapOf("dict", canon.kv)
                 ELSE IF SupportsAsDict(data_dict) THEN MapOf("dict", data_dict.kv)
                 ELSE IF IsCaptureResult(data_dict)
                      THEN MapOf("dict", <<Pair("out", SplitLines(Out(data_dict))),
                                           Pair("err", SplitLines(Err(data_dict)))>>)
                 ELSE IF IsSequence(data_dict) THEN SeqOf("list", canon.el)
                 ELSE data_dict)

\* C1 as amended: check converts by the first category that matches in the
\* order mapping-like, CaptureResult with a text out stream, _asdict,
\* sequence; a CaptureResult with text streams that exposes _asdict is
\* converted by splitting its streams into lines, not via _asdict.
C1_CaptureResultBeforeAsDict ==
    Checked =>
        /\ IsMappingLike(data_dict) => canon = MapOf("dict", canon.kv)
        /\ ~IsMappingLike(data_dict) /\ TextCapture(data_dict) =>
              /\ KeysOf(canon.kv) = <<"out", "err">>
              /\ canon.kv[1].v.cls = "list"
              /\ canon.kv[2].v.cls = "list"
        /\ ~IsMappingLike(data_dict) /\ ~TextCapture(data_dict)
              /\ SupportsAsDict(data_dict) =>
              canon = MapOf("dict", data_dict.kv)
        /\ ~IsMappingLike(data_dict) /\ ~TextCapture(data_dict)
              /\ ~SupportsAsDict(data_dict) /\ IsSequence(data_dict) =>
              canon = SeqOf("list", canon.el)
        /\ ~IsMappingLike(data_dict) /\ ~TextCapture(data_dict)
              /\ ~SupportsAsDict(data_dict) /\ ~IsSequence(data_dict) =>
              canon = data_dict

\* A CaptureResult that exposes _asdict, with text streams, was checked and
\* was not converted via _asdict.
C1_Witness ==
    /\ Checked
    /\ TextCapture(data_dict)
    /\ SupportsAsDict(data_dict)
    /\ Len(Out(data_dict).chars) = MaxText
    /\ canon.kv[1].v.cls = "list"
    /\ canon # MapOf("dict", data_dict.kv)

\* C5 as stated: a str, like any other scalar, reaches the comparison
\* unchanged, and a sequence that is not text becomes a plain list of the
\* same elements in the same order.
C5_TextPassedUnchanged ==
    Checked /\ ~IsMappingLike(data_dict) /\ ~IsCaptureResult(data_dict)
            /\ ~SupportsAsDict(data_dict) =>
        /\ data_dict.cls \in {"str", "int", "PurePosixPath"} => canon = data_dict
        /\ data_dict.cls \in {"list", "tuple", "CustomSequence"} =>
              canon = SeqOf("list", data_dict.el)

\* C6: a mapping-like argument becomes a plain dict with the same key/value
\* pairs, the keys in the order the argument yields them on iteration.
C6_MappingToPlainDict ==
    Checked /\ IsMappingLike(data_dict) =>
        /\ canon = MapOf("dict", canon.kv)
        /\ KeysOf(canon.kv) = Keys(data_dict)
        /\ \A i, j \in 1..Len(canon.kv) : canon.kv[i].k = canon.kv[j].k => i = j
        /\ \A i \in 1..Len(canon.kv) :
              canon.kv[i].v = GetItem(data_dict, canon.kv[i].k)
        /\ data_dict.cls # "ChainMap" => canon.kv = data_dict.kv

\* ChainMap({'a': 1, 'b': 2}, {'c': 3, 'a': 3}) was checked and became
\* {'c': 3, 'a': 1, 'b': 2}.
C6_Witness ==
    /\ Checked
    /\ data_dict.cls = "ChainMap"
    /\ Len(data_dict.el) = 2
    /\ canon = MapOf("dict", <<Pair("c", Three), Pair("a", One), Pair("b", Two)>>)

\* C7 as stated: every argument that exposes _asdict becomes the plain dict
\* that _asdict returns.
C7_EveryAsDict ==
    Checked /\ SupportsAsDict(data_dict) => canon = AsDict(data_dict)

\* C7 as amended: every argument that exposes _asdict and is neither
\* mapping-like nor a CaptureResult with a text out stream becomes the plain
\* dict that _asdict returns.
C7_AsDictUnlessMappingOrTextCapture ==
    Checked /\ SupportsAsDict(data_dict) /\ ~IsMappingLike(data_dict)
            /\ ~TextCapture(data_dict) =>
        canon = AsDict(data_dict)

\* Count(a=1, b=2, c=3) was checked and became {'a': 1, 'b': 2, 'c': 3}.
C7_Witness ==
    /\ Checked
    /\ data_dict = MapOf("Count", ABC)
    /\ canon = MapOf("dict", ABC)

\* The positions of t where a line boundary starts: a boundary character
\* other than the LF of a CR LF.
BoundaryStarts(t) ==
    {p \in 1..Len(t) :
        /\ t[p] \in StrBoundaries
        /\ ~(t[p] = "LF" /\ p > 1 /\ t[p - 1] = "CR")}

\* The characters of t that belong to lines, and the line of each.
LineChars(t) == {p \in 1..Len(t) : t[p] \notin StrBoundaries}
LineOf(t, p) == 1 + Cardinality({q \in BoundaryStarts(t) : q < p})
ColumnOf(t, p) ==
    1 + Cardinality({q \in LineChars(t) : q < p /\ LineOf(t, q) = LineOf(t, p)})

\* l is the list of the lines of the text t: one line per boundary, and one
\* more for text after the last boundary; every character that is no
\* boundary is in its line, at its place; the lines hold nothing else.
IsLinesOf(l, t) ==
    /\ l = SeqOf("list", l.el)
    /\ Len(l.el) = Cardinality(BoundaryStarts(t))
                   + (IF Len(t) > 0 /\ t[Len(t)] \notin StrBoundaries THEN 1 ELSE 0)
    /\ \A i \in 1..Len(l.el) :
          /\ l.el[i] = Str(l.el[i].chars)
          /\ Len(l.el[i].chars) = Cardinality({p \in LineChars(t) : LineOf(t, p) = i})
    /\ \A p \in LineChars(t) : l.el[LineOf(t, p)].chars[ColumnOf(t, p)] = t[p]

\* C8: a CaptureResult with text streams becomes a mapping with the keys
\* out and err, in that order, whose values are the lines of each stream:
\* boundaries removed, other whitespace kept, no empty last line for a
\* trailing newline.
C8_CaptureResultLines ==
    Checked /\ IsCaptureResult(data_dict) /\ IsStr(Out(data_dict))
            /\ IsStr(Err(data_dict)) =>
        /\ canon = MapOf("dict", canon.kv)
        /\ KeysOf(canon.kv) = <<"out", "err">>
        /\ IsLinesOf(canon.kv[1].v, Out(data_dict).chars)
        /\ IsLinesOf(canon.kv[2].v, Err(data_dict).chars)

\* The captured streams "a\n\ta\t\n" and "a  \n" were checked and became
\* ['a', '\ta\t'] and ['a  '].
C8_Witness ==
    /\ Checked
    /\ data_dict = Hello
    /\ canon = MapOf("dict",
                     <<Pair("out", SeqOf("list", <<Str(<<"a">>), Str(<<"TAB", "a", "TAB">>)>>)),
                       Pair("err", SeqOf("list", <<Str(<<"a", "SP", "SP">>)>>))>>)

\* C9: a check of a canonical value passes on that same value, with the
\* same type and contents.
C9_Idempotent == recheck # Null => recheck = canon

\* A named tuple was checked, became a dict, and the dict was checked.
C9_Witness ==
    /\ recheck # Null
    /\ data_dict.cls = "Count"
    /\ canon.cls = "dict"
    /\ canon # data_dict

\* C10 as stated: a value nested in a mapping or in a sequence is serialized
\* as the same value is when it is checked at top level.
C10_NestedAsTopLevel ==
    /\ container = "OrderedDict" => nested = MapOf("dict", <<Pair("a", node)>>)
    /\ container = "CustomSequence" => nested = SeqOf("list", <<node>>)

----------------------------------------------------------------------------
\* The file regression fixture and the files of its test.

Ran(op, filename, extension, contents, outcome) ==
    [file EXCEPT !.last = [op |-> op, filename |-> filename, extension |-> extension,
                           contents |-> contents, outcome |-> outcome],
                 !.failed = @ \/ outcome.raised = "FileNotFoundError"]

\* (tmp_pathplus / n).write_text(t)
write_text(n, t) ==
    /\ Cardinality({m \in FileNames : file.fs[m] # Absent} \cup {n}) <= MaxFiles
    /\ file' = [file EXCEPT !.fs[n] = t]
    /\ UNCHANGED <<data_vars, pset, util, bools, sel, env, dt>>

\* advanced_file_regression.force_regen = b
set_force_regen(b) ==
    /\ file.last.op = "none"
    /\ file' = [file EXCEPT !.force_regen = b]
    /\ UNCHANGED <<data_vars, pset, util, bools, sel, env, dt>>

\* advanced_file_regression.check(c, extension=e)
file_check(c, e) ==
    /\ file' = Ran("check", <<>>, e, c, FileCheck(file, c, e, <<>>))
    /\ UNCHANGED <<data_vars, pset, util, bools, sel, env, dt>>

\* advanced_file_regression.check_file(tmp_pathplus / n, extension=e)
check_file(n, e) ==
    /\ file' = Ran("check_file", n, e, Null, CheckFile(file, n, e))
    /\ UNCHANGED <<data_vars, pset, util, bools, sel, env, dt>>

\* check_file_output(tmp_pathplus / n, file_regression, extension=e)
check_file_output(n, e) ==
    /\ file' = Ran("check_file_output", n, e, Null, CheckFileOutput(file, n, e))
    /\ UNCHANGED <<data_vars, pset, util, bools, sel, env, dt>>

\* check_file_regression(d, file_regression, extension=e)
check_file_regression(d, e) ==
    /\ file' = Ran("check_file_regression", <<>>, e, d, CheckFileRegression(d, e, "", <<>>))
    /\ UNCHANGED <<data_vars, pset, util, bools, sel, env, dt>>

\* The test ends; the next test is given a directory and a fixture of its own.
advanced_file_regression ==
    /\ file # FileInit
    /\ file' = FileInit
    /\ UNCHANGED <<data_vars, pset, util, bools, sel, env, dt>>

NextFile ==
    \/ \E n \in FileNames, t \in FileTexts : write_text(n, t)
    \/ \E b \in BOOLEAN : set_force_regen(b)
    \/ \E c \in FileContents, e \in {DotTxt, DotPy} : file_check(c, e)
    \/ \E n \in FileNames, e \in Extensions : check_file(n, e)
    \/ \E n \in FileNames, e \in Extensions : check_file_output(n, e)
    \/ \E d \in {c \in FileContents : c.cls \in {"str", "StringList"}}, e \in {DotTxt} :
          check_file_regression(d, e)
    \/ advanced_file_regression

SpecFile == Init /\ [][NextFile]_vars

----------------------------------------------------------------------------
\* The properties of the file checks.

Last == file.last

Done == Last.outcome

\* C11: AdvancedFileRegressionFixture.check accepts its contents exactly
\* when they are a str or a StringList, which it checks as its str() text;
\* for any other type it raises a TypeError that names the type it received,
\* before any file is read or written: it makes no call to the regression
\* check.
C11_TextContentsOnly ==
    Last.op = "check" =>
        /\ Done.raised = "TypeError" <=> Last.contents.cls \notin {"str", "StringList"}
        /\ Done.raised \in {"none", "TypeError"}
        /\ Done.raised = "TypeError" =>
              /\ Done.type_name = Last.contents.cls
              /\ Done.log = <<>>
              /\ Done.call = NoCall
        /\ Done.raised = "none" =>
              /\ Done.call.to = "perform_regression_check"
              /\ Done.call.contents.cls = "str"
              /\ Last.contents.cls = "str" => Done.call.contents = Last.contents
              /\ Last.contents.cls = "StringList" =>
                    Done.call.contents.chars = JoinLines(Last.contents.el)

\* check(b'a a') has raised a TypeError naming bytes.
C11_Witness ==
    /\ Last.op = "check"
    /\ Last.contents.cls = "bytes"
    /\ Done.raised = "TypeError"
    /\ Done.type_name = "bytes"

\* The extension the claim names for a file and an extension argument.
ClaimedExtension(filename, extension) ==
    LET given == extension # None /\ Len(extension) > 0
        e == IF given THEN extension ELSE Suffix(filename)
    IN  IF e = <<".", "p", "y">> THEN <<".", "_", "p", "y", "_">> ELSE e

\* C12: check_file_output and check_file both pass on the extension
\* argument when it is given and not empty, and the suffix of the file
\* otherwise; an extension of '.py' is passed on as '._py_', whether it came
\* from the argument or from the suffix; they compute the same extension for
\* the same file and argument.
C12_SameExtension ==
    (Last.op \in {"check_file", "check_file_output"} /\ Done.raised = "none") =>
        Done.call.extension = ClaimedExtension(Last.filename, Last.extension)

\* check_file('f.txt', extension='.py') has passed on '._py_'.
C12_Witness ==
    /\ Last.op = "check_file"
    /\ Last.filename = <<"f", ".", "t", "x", "t">>
    /\ Last.extension = DotPy
    /\ Done.raised = "none"
    /\ Done.call.extension = UnderPy

\* C13: check_file_output and check_file on a file that does not exist
\* raise FileNotFoundError without a call to the regression check, so no
\* reference is created or compared; a call on a file that exists, after
\* such a failure or not, makes the call of a normal check: the text of the
\* file and the extension computed for it.
C13_MissingFile ==
    [][\A n \in FileNames :
          (file'.last # file.last /\ file'.last.filename = n
             /\ file'.last.op \in {"check_file", "check_file_output"}) =>
             LET out == file'.last.outcome
             IN  /\ file.fs[n] = Absent =>
                       /\ out.raised = "FileNotFoundError"
                       /\ out.call = NoCall
                       /\ out.log = <<"read_text">>
                       /\ file'.fs = file.fs
                 /\ file.fs[n] # Absent =>
                       /\ out.raised = "none"
                       /\ out.call.to = IF file'.last.op = "check_file"
                                        THEN "perform_regression_check"
                                        ELSE "FileRegressionFixture.check"
                       /\ out.call.contents = Str(UniversalNewlines(file.fs[n]))
                       /\ out.call.extension = ExtensionFor(file'.last.extension, Suffix(n))
      ]_vars

\* check_file has made its call after an earlier call had failed.
C13_Witness ==
    /\ file.failed
    /\ Last.op = "check_file"
    /\ Done.raised = "none"
    /\ Done.call.to = "perform_regression_check"

----------------------------------------------------------------------------
\* param

\* param(*v, marks=m, id=i, idx=x, key=k)
param(v, m, i, x, k) ==
    /\ ~pset.called
    /\ pset' = [called |-> TRUE, values |-> v, marks |-> m, id |-> i, idx |-> x,
                key |-> k, returned |-> Param(v, m, i, x, k)]
    /\ UNCHANGED <<data_vars, file, util, bools, sel, env, dt>>

\* The next entry of the parametrize list.
next_param ==
    /\ pset.called
    /\ pset' = ParamInit
    /\ UNCHANGED <<data_vars, file, util, bools, sel, env, dt>>

NextParam ==
    \/ \E v \in ParamValues, m \in ParamMarks, i \in ParamIds, x \in ParamIdxs,
          k \in ParamKeys : param(v, m, i, x, k)
    \/ next_param

SpecParam == Init /\ [][NextParam]_vars

\* The arguments of id, idx and key that are not None.
GivenCount ==
    (IF pset.id # <<>> THEN 1 ELSE 0) + (IF pset.idx # <<>> THEN 1 ELSE 0)
        + (IF pset.key # <<>> THEN 1 ELSE 0)

\* C14: param raises ValueError, "'id', 'idx' and 'key' are mutually
\* exclusive.", for every call that gives two or more of id, idx and key a
\* value other than None, before it indexes values or calls key; it never
\* raises it when at most one of them is given.
C14_MutuallyExclusive ==
    pset.called =>
        /\ pset.returned.raised = "ValueError" <=> GivenCount >= 2
        /\ pset.returned.raised = "ValueError" =>
              /\ pset.returned.effects = <<>>
              /\ ~pset.returned.call.made

\* param('a', idx=0, key=itemgetter(0)) has raised ValueError.
C14_Witness ==
    /\ pset.called
    /\ pset.idx = <<Int("0")>>
    /\ pset.key = <<Function("itemgetter(0)")>>
    /\ pset.id = <<>>
    /\ pset.returned.raised = "ValueError"

\* C15: the parameter set param builds holds the given values in order and
\* the given marks, and its id is values[idx] when idx is given, idx = 0
\* included, key(values) when key is given, the id argument when id is
\* given, and None when none of them is.
C15_ParameterSetId ==
    (pset.called /\ pset.returned.raised = "none") =>
        /\ pset.returned.call.made
        /\ pset.returned.call.values = pset.values
        /\ pset.returned.call.marks = pset.marks
        /\ pset.idx # <<>> =>
              /\ InRange(pset.values, pset.idx[1])
              /\ pset.returned.call.id = <<GetIndex(pset.values, pset.idx[1])>>
        /\ pset.key # <<>> =>
              /\ KeyReturns(pset.key[1], pset.values)
              /\ pset.returned.call.id = <<CallKey(pset.key[1], pset.values)>>
        /\ (pset.idx = <<>> /\ pset.key = <<>>) => pset.returned.call.id = pset.id

\* param('a', 4, idx=0) has built a parameter set with the id 'a'.
C15_Witness ==
    /\ pset.called
    /\ pset.values = <<Str(<<"a">>), Int("4")>>
    /\ pset.idx = <<Int("0")>>
    /\ pset.returned.raised = "none"
    /\ pset.returned.call.id = <<Str(<<"a">>)>>

----------------------------------------------------------------------------
\* The helpers of coincidence.utils and whitespace_perms.

\* The list whitespace_perms_list returns: the cached one after the first
\* call.
CachedList == LruCache(util.cache, util.cached, util.computed)

CachedPerms == CachedList.items

\* whitespace_perms_list()
whitespace_perms_list ==
    /\ util.calls < MaxCalls
    /\ util' = [op |-> "whitespace_perms_list", calls |-> util.calls + 1,
                extra |-> <<>>, extra_after |-> <<>>, ratio |-> 10, raised |-> "none",
                values |-> CachedPerms, argnames |-> "", cache |-> CachedPerms,
                cached |-> CachedList.object, computed |-> CachedList.computed,
                object |-> CachedList.object, positions |-> <<>>]
    /\ UNCHANGED <<data_vars, file, pset, bools, sel, env, dt>>

\* whitespace_perms(r / 10)
whitespace_perms(r, seed, stride) ==
    /\ util.calls < MaxCalls
    /\ LET mark == WhitespacePerms(r, seed, stride)
       IN  util' = [op |-> "whitespace_perms", calls |-> util.calls + 1,
                    extra |-> <<>>, extra_after |-> <<>>, ratio |-> r,
                    raised |-> mark.raised, values |-> mark.argvalues,
                    argnames |-> mark.argnames, cache |-> CachedPerms,
                    cached |-> CachedList.object,
                    computed |-> CachedList.computed,
                    object |-> CachedList.object,
                    positions |-> mark.positions]
    /\ UNCHANGED <<data_vars, file, pset, bools, sel, env, dt>>

\* list(generate_truthy_values(extra, r / 10))
generate_truthy_values(extra, r, seed, stride) ==
    /\ util.calls < MaxCalls
    /\ LET out == Generate(TruthyValues(extra), r, seed, stride)
       IN  util' = [util EXCEPT !.op = "generate_truthy_values", !.calls = @ + 1,
                                !.extra = extra, !.extra_after = extra, !.ratio = r,
                                !.raised = out.raised, !.values = out.values,
                                !.argnames = "", !.object = 0,
                                !.positions =
                                    Positions(Len(TruthyValues(extra)), r, seed,
                                              stride)]
    /\ UNCHANGED <<data_vars, file, pset, bools, sel, env, dt>>

\* list(generate_falsy_values(extra, r / 10))
generate_falsy_values(extra, r, seed, stride) ==
    /\ util.calls < MaxCalls
    /\ LET out == Generate(FalsyValues(extra), r, seed, stride)
       IN  util' = [util EXCEPT !.op = "generate_falsy_values", !.calls = @ + 1,
                                !.extra = extra, !.extra_after = extra, !.ratio = r,
                                !.raised = out.raised, !.values = out.values,
                                !.argnames = "", !.object = 0,
                                !.positions =
                                    Positions(Len(FalsyValues(extra)), r, seed,
                                              stride)]
    /\ UNCHANGED <<data_vars, file, pset, bools, sel, env, dt>>

NextUtils ==
    \/ whitespace_perms_list
    \/ \E r \in Ratios, seed \in Seeds, stride \in Strides(Len(WhitespacePermsList)) :
          whitespace_perms(r, seed, stride)
    \/ \E extra \in Extras : \E r \in Ratios, seed \in Seeds,
          stride \in Strides(Len(TruthyValues(extra))) :
          generate_truthy_values(extra, r, seed, stride)
    \/ \E extra \in Extras : \E r \in Ratios, seed \in Seeds,
          stride \in Strides(Len(FalsyValues(extra))) :
          generate_falsy_values(extra, r, seed, stride)

SpecUtils == Init /\ [][NextUtils]_vars

----------------------------------------------------------------------------
\* The properties of the helpers.

WhitespaceChars == {"SP", "TAB", "LF", "CR"}

RECURSIVE WhitespaceStrings(_)
WhitespaceStrings(n) ==
    IF n = 0 THEN {<<>>}
    ELSE {Append(t, c) : t \in WhitespaceStrings(n - 1), c \in WhitespaceChars}

NoRepeats(t) == \A i, j \in 1..Len(t) : t[i] = t[j] => i = j

\* The strings of whitespace without a repeated character whose length is
\* between two numbers.
PermsOfLengths(from, to) ==
    {Str(t) : t \in {u \in UNION {WhitespaceStrings(n) : n \in from..to} : NoRepeats(u)}}

EachOnce(list) == \A i, j \in 1..Len(list) : list[i] = list[j] => i = j

Listed(list) == {list[i] : i \in 1..Len(list)}

\* C16 as stated: whitespace_perms_list returns exactly the permutations
\* without repeated characters of space, tab, newline and carriage return of
\* every length from 1 to 4, each once, and not the empty string.
C16_LengthsOneToFour ==
    util.op = "whitespace_perms_list" =>
        /\ Listed(util.values) = PermsOfLengths(1, 4)
        /\ EachOnce(util.values)
        /\ Str(<<>>) \notin Listed(util.values)

\* C16 as amended: whitespace_perms_list returns exactly the permutations
\* without repeated characters of space, tab, newline and carriage return of
\* every length from 0 to 3, each once: the empty string is the first
\* element and no string of length 4 appears.
C16_LengthsZeroToThree ==
    util.op = "whitespace_perms_list" =>
        /\ Listed(util.values) = PermsOfLengths(0, 3)
        /\ EachOnce(util.values)
        /\ util.values[1] = Str(<<>>)
        /\ \A i \in 1..Len(util.values) : Len(util.values[i].chars) < 4

\* whitespace_perms_list() has returned a list that holds the empty string.
C16_Witness ==
    /\ util.op = "whitespace_perms_list"
    /\ Str(<<>>) \in Listed(util.values)
    /\ Str(<<"SP", "TAB", "LF">>) \in Listed(util.values)

\* C17: the whitespace permutation list has 41 elements, and
\* whitespace_perms(ratio) parametrizes the argument 'char' over
\* int(41 * ratio) of them: 20 for the ratio 0.5, 41 for the ratio 1 and 4
\* for the ratio 0.1; every selected string is one of the list and holds
\* whitespace characters only.
C17_SampleOfFortyOne ==
    /\ util.op = "whitespace_perms_list" => Len(util.values) = 41
    /\ (util.op = "whitespace_perms" /\ util.raised = "none") =>
          /\ util.argnames = "char"
          /\ Len(util.values) = (41 * util.ratio) \div 10
          /\ util.ratio = 5 => Len(util.values) = 20
          /\ util.ratio = 10 => Len(util.values) = 41
          /\ util.ratio = 1 => Len(util.values) = 4
          /\ EachOnce(util.values)
          /\ \A i \in 1..Len(util.values) :
                /\ util.values[i].cls = "str"
                /\ \A k \in 1..Len(util.values[i].chars) :
                      util.values[i].chars[k] \in WhitespaceChars

\* whitespace_perms(0.5) has selected 20 strings.
C17_Witness ==
    /\ util.op = "whitespace_perms"
    /\ util.ratio = 5
    /\ Len(util.values) = 20

\* C18: generate_truthy_values() with no extras and ratio 1 yields True,
\* 'True', 'true', 'tRUe', 'y', 'Y', 'YES', 'yes', 'Yes', 'yEs', 'ON', 'on',
\* '1', 1 in this order, 14 values, on every call.
C18_TruthyValues ==
    (util.op = "generate_truthy_values" /\ util.extra = <<>> /\ util.ratio = 10) =>
        /\ Len(util.values) = 14
        /\ util.values =
              <<Val("bool", <<>>, <<>>, <<"True">>),
                Str(<<"T", "r", "u", "e">>), Str(<<"t", "r", "u", "e">>),
                Str(<<"t", "R", "U", "e">>),
                Str(<<"y">>), Str(<<"Y">>),
                Str(<<"Y", "E", "S">>), Str(<<"y", "e", "s">>),
                Str(<<"Y", "e", "s">>), Str(<<"y", "E", "s">>),
                Str(<<"O", "N">>), Str(<<"o", "n">>),
                Str(<<"1">>), Val("int", <<>>, <<>>, <<"1">>)>>

\* A second call of generate_truthy_values() has yielded its 14 values.
C18_Witness ==
    /\ util.op = "generate_truthy_values"
    /\ util.calls = 2
    /\ util.extra = <<>>
    /\ util.ratio = 10
    /\ Len(util.values) = 14

\* str.lower() of one character.
LowerChar(c) ==
    CASE c = "T" -> "t" [] c = "R" -> "r" [] c = "U" -> "u" [] c = "E" -> "e"
      [] c = "Y" -> "y" [] c = "S" -> "s" [] c = "O" -> "o" [] c = "N" -> "n"
      [] c = "F" -> "f" [] c = "A" -> "a" [] c = "L" -> "l"
      [] OTHER -> c

Lower(t) == [i \in 1..Len(t) |-> LowerChar(t[i])]

\* The word family of a value, whatever its case.
Family(v) ==
    CASE v.cls = "bool" -> "True/False"
      [] v.cls = "int" -> "1/0"
      [] v.cls = "str" /\ Lower(v.chars) \in {<<"t", "r", "u", "e">>, <<"f", "a", "l", "s", "e">>}
            -> "'true'/'false'"
      [] v.cls = "str" /\ Lower(v.chars) \in {<<"y">>, <<"n">>} -> "'y'/'n'"
      [] v.cls = "str" /\ Lower(v.chars) \in {<<"y", "e", "s">>, <<"n", "o">>} -> "'yes'/'no'"
      [] v.cls = "str" /\ Lower(v.chars) \in {<<"o", "n">>, <<"o", "f", "f">>} -> "'on'/'off'"
      [] v.cls = "str" /\ v.chars \in {<<"1">>, <<"0">>} -> "'1'/'0'"
      [] OTHER -> "none"

\* The values that read as false.
IsFalseValue(v) ==
    \/ v.cls = "bool" /\ v.chars = <<"False">>
    \/ v.cls = "int" /\ v.chars = <<"0">>
    \/ v.cls = "str" /\ Lower(v.chars) \in
          {<<"f", "a", "l", "s", "e">>, <<"n">>, <<"n", "o">>, <<"o", "f", "f">>, <<"0">>}

FalsyCalled ==
    util.op = "generate_falsy_values" /\ util.extra = <<>> /\ util.ratio = 10

\* C19 as stated: generate_falsy_values() with no extras and ratio 1 has the
\* length of the truthy list, and its element at each index is the false
\* value of the word family of the truthy element at that index.
C19_MirrorsEveryIndex ==
    FalsyCalled =>
        /\ Len(util.values) = Len(TruthyValues(<<>>))
        /\ \A i \in 1..Len(util.values) :
              /\ IsFalseValue(util.values[i])
              /\ Family(util.values[i]) = Family(TruthyValues(<<>>)[i])

\* C19 as amended: generate_falsy_values() with no extras and ratio 1 has the
\* length of the truthy list, 14, and every element is a false value; its
\* element at each index is of the word family of the truthy element at that
\* index, except at index 9, counted from 0, where the truthy list holds
\* 'yEs', its fourth spelling of yes, and the falsy list holds 'OFF', the
\* first of its three spellings of off after three of no.
C19_MirrorsButIndexNine ==
    FalsyCalled =>
        /\ Len(util.values) = Len(TruthyValues(<<>>))
        /\ Len(util.values) = 14
        /\ \A i \in 1..Len(util.values) :
              /\ IsFalseValue(util.values[i])
              /\ i # 10 => Family(util.values[i]) = Family(TruthyValues(<<>>)[i])
        /\ Family(TruthyValues(<<>>)[10]) = "'yes'/'no'"
        /\ util.values[10] = Str(<<"O", "F", "F">>)

\* generate_falsy_values() has yielded 'nO' at index 8 and 'OFF' at index 9.
C19_Witness ==
    /\ FalsyCalled
    /\ Len(util.values) = 14
    /\ util.values[9] = Str(<<"n", "O">>)
    /\ util.values[10] = Str(<<"O", "F", "F">>)

\* The 14 fixed values of the generator that was called.
FixedValues ==
    IF util.op = "generate_truthy_values" THEN TruthyValues(<<>>) ELSE FalsyValues(<<>>)

\* C20: for a ratio of 1 or more, generate_truthy_values and
\* generate_falsy_values yield their 14 fixed values in their fixed order and
\* then the extra values of the caller in the caller's order: nothing is
\* dropped, reordered or deduplicated, and the caller's extra sequence is as
\* it was.
C20_ExtrasAtEnd ==
    (util.op \in {"generate_truthy_values", "generate_falsy_values"} /\ util.ratio >= 10) =>
        /\ Len(FixedValues) = 14
        /\ Len(util.values) = 14 + Len(util.extra)
        /\ \A i \in 1..14 : util.values[i] = FixedValues[i]
        /\ \A i \in 1..Len(util.extra) : util.values[14 + i] = util.extra[i]
        /\ util.extra_after = util.extra

\* generate_truthy_values([1, 1], 1) has yielded 16 values: the extra ones
\* are equal to each other and to a fixed value.
C20_Witness ==
    /\ util.op = "generate_truthy_values"
    /\ util.ratio = 10
    /\ util.extra = <<Int("1"), Int("1")>>
    /\ Len(util.values) = 16

----------------------------------------------------------------------------
\* testing_boolean_values

\* testing_boolean_values(et, ef, r / 10)
testing_boolean_values(et, ef, r, st, sf) ==
    /\ ~bools.called
    /\ LET mark == TestingBooleanValues(et, ef, r, st, sf)
       IN  bools' = [called |-> TRUE, extra_truthy |-> et, extra_falsy |-> ef,
                     ratio |-> r, truthy |-> mark.truthy, falsy |-> mark.falsy,
                     argnames |-> mark.argnames, argvalues |-> mark.argvalues]
    /\ UNCHANGED <<data_vars, file, pset, util, sel, env, dt>>

\* The next test function that is decorated.
next_boolean_values ==
    /\ bools.called
    /\ bools' = BoolsInit
    /\ UNCHANGED <<data_vars, file, pset, util, sel, env, dt>>

NextBools ==
    \/ \E et \in Extras, ef \in Extras : \E r \in Ratios,
          st \in Seeds \X Strides(Len(TruthyValues(et))),
          sf \in Seeds \X Strides(Len(FalsyValues(ef))) :
          testing_boolean_values(et, ef, r, st, sf)
    \/ next_boolean_values

SpecBools == Init /\ [][NextBools]_vars

\* The values that read as true.
IsTrueValue(v) ==
    \/ v.cls = "bool" /\ v.chars = <<"True">>
    \/ v.cls = "int" /\ v.chars = <<"1">>
    \/ v.cls = "str" /\ Lower(v.chars) \in
          {<<"t", "r", "u", "e">>, <<"y">>, <<"y", "e", "s">>, <<"o", "n">>, <<"1">>}

\* C21: testing_boolean_values parametrizes 'boolean_string,
\* expected_boolean' over (v, True) for every value v the truthy generator
\* yields, in its order, and then (v, False) for every value the falsy
\* generator yields, in its order; with the default arguments that is 28
\* pairs: the 14 fixed truthy values and the 14 fixed falsy values, and in
\* every pair the boolean is the meaning of the value.
C21_TruthyThenFalsyPairs ==
    bools.called =>
        /\ bools.argnames = "boolean_string, expected_boolean"
        /\ Len(bools.argvalues) = Len(bools.truthy) + Len(bools.falsy)
        /\ \A i \in 1..Len(bools.truthy) :
              bools.argvalues[i] = <<bools.truthy[i], Val("bool", <<>>, <<>>, <<"True">>)>>
        /\ \A i \in 1..Len(bools.falsy) :
              bools.argvalues[Len(bools.truthy) + i] =
                  <<bools.falsy[i], Val("bool", <<>>, <<>>, <<"False">>)>>
        /\ (bools.extra_truthy = <<>> /\ bools.extra_falsy = <<>> /\ bools.ratio = 10) =>
              /\ Len(bools.argvalues) = 28
              /\ bools.truthy = TruthyValues(<<>>)
              /\ bools.falsy = FalsyValues(<<>>)
              /\ \A i \in 1..Len(bools.argvalues) :
                    /\ Len(bools.argvalues[i]) = 2
                    /\ bools.argvalues[i][2].cls = "bool"
                    /\ bools.argvalues[i][2].chars = <<"True">>
                          <=> IsTrueValue(bools.argvalues[i][1])
                    /\ bools.argvalues[i][2].chars = <<"False">>
                          <=> IsFalseValue(bools.argvalues[i][1])

\* testing_boolean_values() has built its 28 pairs: the 15th is (False, False).
C21_Witness ==
    /\ bools.called
    /\ bools.extra_truthy = <<>>
    /\ bools.extra_falsy = <<>>
    /\ bools.ratio = 10
    /\ Len(bools.argvalues) = 28
    /\ bools.argvalues[15] = <<Bool("False"), Bool("False")>>

----------------------------------------------------------------------------
\* The version selectors and parametrized_versions.

Selected(op, v, reason, running, marked) ==
    [sel EXCEPT !.op = op, !.version = v, !.reason = reason, !.running = running,
                !.raised = marked.raised, !.version_ = marked.version,
                !.mark = marked.mark]

\* min_version(v, reason) under the interpreter running
min_version(v, reason, running) ==
    /\ sel.op = "none"
    /\ sel' = Selected("min_version", v, reason, running, MinVersion(v, reason, running))
    /\ UNCHANGED <<data_vars, file, pset, util, bools, env, dt>>

\* max_version(v, reason)
max_version(v, reason, running) ==
    /\ sel.op = "none"
    /\ sel' = Selected("max_version", v, reason, running, MaxVersion(v, reason, running))
    /\ UNCHANGED <<data_vars, file, pset, util, bools, env, dt>>

\* only_version(v, reason)
only_version(v, reason, running) ==
    /\ sel.op = "none"
    /\ sel' = Selected("only_version", v, reason, running, OnlyVersion(v, reason, running))
    /\ UNCHANGED <<data_vars, file, pset, util, bools, env, dt>>

\* parametrized_versions(*versions, reasons=reasons)
parametrized_versions(versions, reasons, running) ==
    /\ sel.op = "none"
    /\ LET out == ParametrizedVersions(versions, reasons, running)
       IN  sel' = [sel EXCEPT !.op = "parametrized_versions", !.versions = versions,
                              !.reasons = reasons, !.running = running,
                              !.raised = out.raised, !.params = out.params]
    /\ UNCHANGED <<data_vars, file, pset, util, bools, env, dt>>

\* The next test that is decorated.
next_selector ==
    /\ sel.op # "none"
    /\ sel' = [SelInit EXCEPT !.factory = sel.factory, !.current = sel.current]
    /\ UNCHANGED <<data_vars, file, pset, util, bools, env, dt>>

NextVersions ==
    \/ \E v \in VersionArgs, reason \in Reasons, running \in Running :
          min_version(v, reason, running)
    \/ \E v \in VersionArgs, reason \in Reasons, running \in Running :
          max_version(v, reason, running)
    \/ \E v \in VersionArgs, reason \in Reasons, running \in Running :
          only_version(v, reason, running)
    \/ \E versions \in VersionLists, reasons \in ReasonsArgs, running \in Running :
          parametrized_versions(versions, reasons, running)
    \/ next_selector

SpecVersions == Init /\ [][NextVersions]_vars

\* platform_boolean_factory(condition, platform, versionadded), the
\* condition evaluated now.
platform_boolean_factory(platform, versionadded) ==
    /\ ~sel.factory.made
    /\ sel' = [sel EXCEPT !.factory =
                   PlatformBooleanFactory(sel.current, platform, versionadded)]
    /\ UNCHANGED <<data_vars, file, pset, util, bools, env, dt>>

\* What the condition depends on changes: a file of Docker is created, the
\* value of sys.platform is patched.
platform_changes ==
    /\ sel' = [sel EXCEPT !.current = ~@]
    /\ UNCHANGED <<data_vars, file, pset, util, bools, env, dt>>

\* not_function(reason)
not_function(reason) ==
    /\ sel.factory.made
    /\ sel' = [sel EXCEPT !.op = "not_function", !.reason = reason,
                          !.mark = NotFunction(sel.factory, reason),
                          !.seen = sel.current]
    /\ UNCHANGED <<data_vars, file, pset, util, bools, env, dt>>

\* only_function(reason)
only_function(reason) ==
    /\ sel.factory.made
    /\ sel' = [sel EXCEPT !.op = "only_function", !.reason = reason,
                          !.mark = OnlyFunction(sel.factory, reason),
                          !.seen = sel.current]
    /\ UNCHANGED <<data_vars, file, pset, util, bools, env, dt>>

\* The module is imported anew, in another process.
import_selectors ==
    /\ sel.factory.made
    /\ sel' = [SelInit EXCEPT !.current = sel.current]
    /\ UNCHANGED <<data_vars, file, pset, util, bools, env, dt>>

NextPlatform ==
    \/ \E platform \in Platforms, versionadded \in {<<>>, <<"0.2.0">>} :
          platform_boolean_factory(platform, versionadded)
    \/ platform_changes
    \/ \E reason \in Reasons : not_function(reason)
    \/ \E reason \in Reasons : only_function(reason)
    \/ import_selectors

SpecPlatform == Init /\ [][NextPlatform]_vars

----------------------------------------------------------------------------
\* The properties of the selectors.

\* a < b for two triples of numbers.
TripleLess(a, b) ==
    \/ a[1] < b[1]
    \/ a[1] = b[1] /\ a[2] < b[2]
    \/ a[1] = b[1] /\ a[2] = b[2] /\ a[3] < b[3]

ThreeNine == {VFloat(<<"3", ".", "9">>), VStr(<<"3", ".", "9">>), VTuple(<<3, 9>>)}

\* C22: the skip mark of only_version(v) has a condition that is true exactly
\* when the (major, minor) of the running interpreter differs from the
\* (major, minor) of v: only_version(3.9) does not skip on any 3.9.x and
\* skips on every other minor version; the micro versions are ignored.
C22_OnlyVersion ==
    (sel.op = "only_version" /\ sel.raised = "none") =>
        /\ sel.mark.name = "skipif"
        /\ sel.mark.condition <=>
              ~(sel.running[1] = sel.version_[1] /\ sel.running[2] = sel.version_[2])
        /\ sel.version \in ThreeNine =>
              (sel.mark.condition <=> ~(sel.running[1] = 3 /\ sel.running[2] = 9))

\* only_version(3.9) has made a mark that does not skip on Python 3.9.1.
C22_Witness ==
    /\ sel.op = "only_version"
    /\ sel.version = VFloat(<<"3", ".", "9">>)
    /\ sel.running = <<3, 9, 1>>
    /\ sel.mark.name = "skipif"
    /\ ~sel.mark.condition

\* The numbers a version argument gives.
Given23(v) ==
    IF v.kind = "tuple" THEN Len(v.items)
    ELSE Len(SplitVersion(IF v.kind = "float" THEN FloatStr(v.text) ELSE v.text, <<>>))

\* C23: min_version(v) skips exactly when the running version is less than
\* v and max_version(v) exactly when it is greater; both compare the
\* (major, minor, micro) of the interpreter with v, the numbers v does not
\* give taken as zero, so that max_version of a major.minor version skips on
\* every release of that minor version whose micro version is above 0.
C23_MinMaxVersion ==
    (sel.op \in {"min_version", "max_version"} /\ sel.raised = "none") =>
        /\ sel.mark.name = "skipif"
        /\ Len(sel.version_) = 3
        /\ \A i \in 1..3 : i > Given23(sel.version) => sel.version_[i] = 0
        /\ sel.op = "min_version" =>
              (sel.mark.condition <=> TripleLess(sel.running, sel.version_))
        /\ sel.op = "max_version" =>
              (sel.mark.condition <=> TripleLess(sel.version_, sel.running))
        /\ (sel.op = "max_version" /\ Given23(sel.version) = 2
              /\ sel.running[1] = sel.version_[1] /\ sel.running[2] = sel.version_[2]
              /\ sel.running[3] > 0) => sel.mark.condition

\* max_version('3.9') has made a mark that skips on Python 3.9.1.
C23_Witness ==
    /\ sel.op = "max_version"
    /\ sel.version = VStr(<<"3", ".", "9">>)
    /\ sel.running = <<3, 9, 1>>
    /\ sel.mark.condition

\* The two numbers M and m a version argument is written with, for the
\* arguments written with two.
WrittenAs(v) ==
    IF v.kind = "tuple" THEN v.items
    ELSE LET pieces == SplitVersion(v.text, <<>>)
         IN  [i \in 1..Len(pieces) |-> IF pieces[i] = <<>> THEN 0 ELSE ParseInt(pieces[i])]

TwoNumbers(v) ==
    IF v.kind = "tuple" THEN Len(v.items) = 2
    ELSE LET pieces == SplitVersion(v.text, <<>>)
         IN  Len(pieces) = 2 /\ pieces[1] # <<>> /\ pieces[2] # <<>>

\* C24: a version written as the string 'M.m', as the float M.m or as the
\* tuple (M, m) is normalized to the triple (M, m, 0), for a minor version
\* of two digits as well: '3.10', 3.10 and (3, 10) all give (3, 10, 0).
C24_SameTriple ==
    (sel.op \in {"min_version", "max_version", "only_version"} /\ TwoNumbers(sel.version)) =>
        /\ sel.raised = "none"
        /\ sel.version_ = <<WrittenAs(sel.version)[1], WrittenAs(sel.version)[2], 0>>

\* C25: the marks of the not_function of platform_boolean_factory(condition,
\* platform) skip exactly when the condition is true and those of its
\* only_function exactly when it is false, so exactly one of the two skips;
\* the condition is the one given to the factory, whatever it would be when
\* the mark is made; the reasons are 'Not required on <platform>' and 'Only
\* required on <platform>' unless the caller gives one.
C25_NotAndOnly ==
    (sel.factory.made /\ sel.op \in {"not_function", "only_function"}) =>
        /\ sel.mark.name = "skipif"
        /\ sel.op = "not_function" => (sel.mark.condition <=> sel.factory.condition)
        /\ sel.op = "only_function" => (sel.mark.condition <=> ~sel.factory.condition)
        /\ NotFunction(sel.factory, sel.reason).condition
              # OnlyFunction(sel.factory, sel.reason).condition
        /\ sel.reason # <<>> => sel.mark.reason = sel.reason[1]
        /\ (sel.reason = <<>> /\ sel.op = "not_function") =>
              sel.mark.reason = <<"Not", " required on ", sel.factory.platform>>
        /\ (sel.reason = <<>> /\ sel.op = "only_function") =>
              sel.mark.reason = <<"Only", " required on ", sel.factory.platform>>

\* only_function() of a factory called with a false condition has made a
\* mark that skips, when the condition had become true.
C25_Witness ==
    /\ sel.factory.made
    /\ ~sel.factory.condition
    /\ sel.op = "only_function"
    /\ sel.seen
    /\ sel.reason = <<>>
    /\ sel.mark.condition

\* The reason parametrized_versions gives the i-th version.
ClaimedReason(i) ==
    IF sel.reasons.kind = "str" THEN sel.reasons.text
    ELSE IF i <= Len(sel.reasons.items) /\ sel.reasons.items[i] # <<>>
         THEN sel.reasons.items[i][1]
    ELSE <<"Not needed on Python ">> \o VersionStr(MakeVersion(sel.versions[i]).version)
             \o <<".">>

\* C26: parametrized_versions returns one parameter set for each version, in
\* the order given, whose one value is the string 'major.minor' and whose one
\* mark is the skip of only_version for that version; a string reasons is
\* the reason of every version; the reasons of an iterable go to the
\* versions by position, a version past its end, or whose reason is None,
\* has the reason 'Not needed on Python v<major.minor.micro>.', and the
\* reasons past the last version are ignored.
C26_ParametrizedVersions ==
    (sel.op = "parametrized_versions" /\ sel.raised = "none") =>
        /\ Len(sel.params) = Len(sel.versions)
        /\ \A i \in 1..Len(sel.versions) :
              LET v == MakeVersion(sel.versions[i]).version
              IN  /\ sel.params[i].values = <<DigitsOf(v[1]) \o <<".">> \o DigitsOf(v[2])>>
                  /\ Len(sel.params[i].marks) = 1
                  /\ sel.params[i].marks[1].name = "skipif"
                  /\ sel.params[i].marks[1].condition
                        <=> ~(sel.running[1] = v[1] /\ sel.running[2] = v[2])
                  /\ sel.params[i].marks[1].reason = ClaimedReason(i)

\* parametrized_versions('3.9', (3, 10), reasons=['first']) has given the
\* second version the default reason.
C26_Witness ==
    /\ sel.op = "parametrized_versions"
    /\ sel.versions = <<VStr(<<"3", ".", "9">>), VTuple(<<3, 10>>)>>
    /\ sel.reasons = ReasonsList(<< << <<"first">> >> >>)
    /\ Len(sel.params) = 2
    /\ sel.params[1].marks[1].reason = <<"first">>
    /\ sel.params[2].values = << <<"3", ".", "1", "0">> >>
    /\ sel.params[2].marks[1].reason =
          <<"Not needed on Python ", "v", "3", ".", "1", "0", ".", "0", ".">>

\* ---------------------------------------------------------------------
\* is_docker, step by step, next to a filesystem other processes write.

\* is_docker has been called: a write from now on is one the last call
\* did not see, or saw only in part.
Called == env.pc # "idle"

Returns(result) ==
    [env EXCEPT !.pc = "done", !.result = result]

\* is_docker(): os.path.exists(_dockerenv)
is_docker ==
    /\ env.pc \in {"idle", "done"}
    /\ env' = [(IF env.dockerenv THEN Returns("True")
                ELSE [env EXCEPT !.pc = "is_file", !.result = "none"])
               EXCEPT !.previous = env.result, !.changed = FALSE,
                      !.vanished = FALSE]
    /\ UNCHANGED <<data_vars, file, pset, util, bools, sel, dt>>

\* if _cgroup.is_file(): ... return False
is_file ==
    /\ env.pc = "is_file"
    /\ env' = IF IsFile(env.cgroup) THEN [env EXCEPT !.pc = "read_lines"]
              ELSE Returns("False")
    /\ UNCHANGED <<data_vars, file, pset, util, bools, sel, dt>>

\* try: return any(... _cgroup.read_lines()) except FileNotFoundError
read_lines ==
    /\ env.pc = "read_lines"
    /\ env' = [Returns(ReadLines(env.cgroup, env.lines))
               EXCEPT !.vanished = (env.cgroup = "absent")]
    /\ UNCHANGED <<data_vars, file, pset, util, bools, sel, dt>>

Written(dockerenv, cgroup, lines) ==
    /\ <<dockerenv, cgroup, lines>> # <<env.dockerenv, env.cgroup, env.lines>>
    /\ env' = [env EXCEPT !.dockerenv = dockerenv, !.cgroup = cgroup,
                          !.lines = lines,
                          !.changed = env.changed \/ Called]
    /\ UNCHANGED <<data_vars, file, pset, util, bools, sel, dt>>

\* (tmp_pathplus / "dockerenv").touch()
touch_dockerenv ==
    /\ ~env.dockerenv
    /\ Written(TRUE, env.cgroup, env.lines)

\* (tmp_pathplus / "dockerenv").unlink()
unlink_dockerenv ==
    /\ env.dockerenv
    /\ Written(FALSE, env.cgroup, env.lines)

\* cgroup.write_text(...)
write_cgroup ==
    /\ env.cgroup # "dir"
    /\ \E lines \in CgroupLines : Written(env.dockerenv, "file", lines)

\* cgroup.unlink()
unlink_cgroup ==
    /\ env.cgroup = "file"
    /\ Written(env.dockerenv, "absent", <<>>)

\* cgroup.mkdir()
mkdir_cgroup ==
    /\ env.cgroup = "absent"
    /\ Written(env.dockerenv, "dir", <<>>)

\* cgroup.rmdir()
rmdir_cgroup ==
    /\ env.cgroup = "dir"
    /\ Written(env.dockerenv, "absent", <<>>)

NextDocker ==
    \/ is_docker
    \/ is_file
    \/ read_lines
    \/ touch_dockerenv
    \/ unlink_dockerenv
    \/ write_cgroup
    \/ unlink_cgroup
    \/ mkdir_cgroup
    \/ rmdir_cgroup

SpecDocker == Init /\ [][NextDocker]_vars

\* What the claim calls the condition, of the filesystem as it is now.
DockerNow ==
    \/ env.dockerenv
    \/ /\ env.cgroup = "file"
       /\ \E i \in 1..Len(env.lines) : \E j \in 1..Len(env.lines[i]) :
              env.lines[i][j] = "docker"

\* C27: a call of is_docker since whose start the filesystem did not
\* change returns True exactly when the dockerenv path exists or the cgroup
\* path is a regular file with a line containing "docker", whatever the
\* call before it returned; a call that found the cgroup file with
\* is_file and found it gone when reading returns False and does not
\* raise.
C27_IsDocker ==
    env.pc = "done" =>
        /\ ~env.changed => env.result = (IF DockerNow THEN "True" ELSE "False")
        /\ env.vanished => env.result = "False"
        /\ env.result = "True" => ~env.vanished

\* A call answered True from the cgroup file; in the next one the file
\* went away between is_file and read_lines, and the call returned False.
C27_Witness ==
    /\ env.pc = "done"
    /\ env.previous = "True"
    /\ env.vanished
    /\ env.result = "False"

\* ---------------------------------------------------------------------
\* with_fixed_datetime blocks, entered, used and left.

\* The interpreter and the time zone of the process.
interpreter ==
    /\ ~dt.started
    /\ \E pypy \in BOOLEAN, local \in LocalOffsets :
           dt' = [dt EXCEPT !.started = TRUE, !.pypy = pypy, !.local = local]
    /\ UNCHANGED <<data_vars, file, pset, util, bools, sel, env>>

\* with with_fixed_datetime(fixed): the innermost block is the first.
Enter(fixed, by) ==
    /\ Len(dt.blocks) < MaxDepth
    /\ LET block == [fixed |-> fixed, depth |-> Len(dt.blocks) + 1]
           monkeypatch == WithFixedDatetime(dt.module, dt.pypy, block)
       IN  dt' = [dt EXCEPT !.module = monkeypatch.module,
                            !.blocks = <<[fixed |-> fixed, by |-> by,
                                          setattrs |-> monkeypatch.setattrs,
                                          entry |-> dt.module]>> \o @,
                            !.op = "enter", !.result = ClockNow,
                            !.calls = 0, !.left = <<>>, !.how = "none"]
    /\ UNCHANGED <<data_vars, file, pset, util, bools, sel, env>>

with_fixed_datetime ==
    /\ dt.started
    /\ \E fixed \in FixedDatetimes : Enter(fixed, "with_fixed_datetime")

\* The fixed_datetime fixture (fixtures.py)
fixed_datetime ==
    /\ dt.started
    /\ dt.blocks = <<>>
    /\ Enter(FixtureDatetime, "fixed_datetime")

\* The end of the with block, or an exception out of it: the monkeypatch
\* context undoes its setattrs.
exit_block ==
    /\ dt.blocks # <<>>
    /\ \E how \in {"normal", "exception"} :
           dt' = [dt EXCEPT !.module = Undo(dt.module, dt.blocks[1].setattrs),
                            !.blocks = Tail(@),
                            !.op = "exit", !.result = ClockNow,
                            !.calls = 0, !.left = <<dt.blocks[1]>>,
                            !.how = how]
    /\ UNCHANGED <<data_vars, file, pset, util, bools, sel, env>>

Call(op, result) ==
    /\ dt.calls < MaxCalls \/ dt.op # op
    /\ dt' = [dt EXCEPT !.op = op, !.result = result,
                        !.calls = IF dt.op = op THEN @ + 1 ELSE 1,
                        !.left = <<>>, !.how = "none"]
    /\ UNCHANGED <<data_vars, file, pset, util, bools, sel, env>>

datetime_now ==
    /\ dt.started
    /\ Call("now", Now(dt.module, dt.local))

datetime_today ==
    /\ dt.started
    /\ Call("today", Today(dt.module))

date_today ==
    /\ dt.started
    /\ Call("date.today", DateToday(dt.module))

NextDatetime ==
    \/ interpreter
    \/ with_fixed_datetime
    \/ fixed_datetime
    \/ exit_block
    \/ datetime_now
    \/ datetime_today
    \/ date_today

SpecDatetime == Init /\ [][NextDatetime]_vars

\* a == b of two datetimes: a naive and an aware one are never equal,
\* two aware ones are equal when they are the same instant.
DatetimeEq(a, b) ==
    IF a.tzinfo = Naive \/ b.tzinfo = Naive THEN a = b
    ELSE Timestamp(a, 0) = Timestamp(b, 0)

\* C28: while a with_fixed_datetime(d) block is active every call of
\* datetime.datetime.now() returns d, of datetime.datetime.today()
\* midnight of the date of d and of datetime.date.today() the date of d,
\* however many calls were made; when a block is left, normally or by
\* an exception, the attributes of datetime are what they were when it
\* was entered, so that the calls after a nested block give the value
\* of the enclosing one.
C28_FixedDatetime ==
    /\ dt.blocks # <<>> =>
           /\ dt.op = "now" => DatetimeEq(dt.result, dt.blocks[1].fixed)
           /\ dt.op = "today" => dt.result = MidnightOf(dt.blocks[1].fixed)
           /\ dt.op = "date.today" => dt.result = DateOf(dt.blocks[1].fixed)
    /\ dt.op = "exit" => dt.module = dt.left[1].entry

----------------------------------------------------------------------------
\* The cache of whitespace_perms_list and the sampling.

\* C29: the list of whitespace permutations is made at most once in a
\* process: after any calls of whitespace_perms_list and of
\* whitespace_perms, at any ratio, a call of whitespace_perms_list
\* returns the list object the first call made, with the contents and the
\* order it had then, and whitespace_perms, which samples that object,
\* leaves the list in the cache as it was.
C29_ComputedOnce ==
    /\ util.computed <= 1
    /\ util.cache \in {<<>>, WhitespacePermsList}
    /\ util.cache # <<>> => util.cached = 1
    /\ util.op = "whitespace_perms_list" =>
           /\ util.object = 1
           /\ util.values = util.cache
    /\ util.op = "whitespace_perms" => util.object = 1

\* A second call, of whitespace_perms_list, after the list was made.
C29_Witness ==
    /\ util.op = "whitespace_perms_list"
    /\ util.calls >= 2
    /\ util.computed = 1
    /\ util.object = 1

\* int(n * ratio) of a ratio in tenths: the k with k <= n * ratio < k + 1.
Truncated(n, ratio) ==
    CHOOSE k \in 0..(n * ratio) : 10 * k <= n * ratio /\ n * ratio < 10 * (k + 1)

\* k positions of a list of n, no two the same.
DistinctPositions(positions, k, n) ==
    /\ Len(positions) = k
    /\ \A j \in 1..k : positions[j] \in 1..n
    /\ \A i, j \in 1..k : positions[i] = positions[j] => i = j

\* values are the elements of full at the positions.
TakenFrom(values, positions, full) ==
    /\ Len(values) = Len(positions)
    /\ \A j \in 1..Len(values) :
           positions[j] \in 1..Len(full) /\ values[j] = full[positions[j]]

SampledFrom(full) ==
    /\ Len(util.values) = Truncated(Len(full), util.ratio)
    /\ DistinctPositions(util.positions, Len(util.values), Len(full))
    /\ TakenFrom(util.values, util.positions, full)
    /\ util.ratio = 0 => util.values = <<>>

\* C30: for 0 <= ratio < 1 generate_truthy_values and
\* generate_falsy_values yield int(n * ratio) values, n being 14 plus the
\* number of extras (4 values at ratio 0.3 without extras), each from a
\* position of its own of the full list with the extras;
\* whitespace_perms(ratio) has int(41 * ratio) values from positions of
\* their own of the list for 0 <= ratio <= 1; at ratio 0 there are none.
C30_SampleWithoutReplacement ==
    /\ (util.op = "generate_truthy_values" /\ util.ratio < 10) =>
           /\ Len(TruthyValues(util.extra)) = 14 + Len(util.extra)
           /\ SampledFrom(TruthyValues(util.extra))
           /\ (util.ratio = 3 /\ util.extra = <<>>) => Len(util.values) = 4
    /\ (util.op = "generate_falsy_values" /\ util.ratio < 10) =>
           /\ Len(FalsyValues(util.extra)) = 14 + Len(util.extra)
           /\ SampledFrom(FalsyValues(util.extra))
           /\ (util.ratio = 3 /\ util.extra = <<>>) => Len(util.values) = 4
    /\ (util.op = "whitespace_perms" /\ util.ratio <= 10) =>
           /\ util.raised = "none"
           /\ Len(util.cache) = 41
           /\ SampledFrom(util.cache)

\* generate_truthy_values(ratio=0.3) has yielded 4 of the 14 values.
C30_Witness ==
    /\ util.op = "generate_truthy_values"
    /\ util.ratio = 3
    /\ util.extra = <<>>
    /\ Len(util.values) = 4
    /\ util.values[1] # util.values[2]

====
